---- MODULE Spec2Model ----
(***************************************************************************)
(* VOICE Relay: the hybrid RSA + AES-256-GCM envelope of                   *)
(* agent/crypto_utils.py (CryptoUtils), modelled call by call.             *)
(*                                                                         *)
(* Bytes are integers 0..255, byte strings are sequences of bytes, Python  *)
(* str values are sequences of code points.  The primitives of the         *)
(* `cryptography` package (RSA-OAEP, AES-GCM) and os.urandom are library   *)
(* code: they are represented by small deterministic stand-ins that keep   *)
(* the contract the library documents (output lengths, the argument checks *)
(* that raise ValueError, decryption inverse to encryption, a tag that is  *)
(* recomputed and compared, a random source whose draws do not repeat).    *)
(* Everything CryptoUtils itself does (slicing, ordering of the steps,     *)
(* concatenation, base64 and UTF-8 conversion) is modelled as written.     *)
(***************************************************************************)
EXTENDS Integers, Sequences, FiniteSets, TLC

(***************************************************************************)
(* Program constants                                                       *)
(***************************************************************************)
\* CryptoUtils.KEY_SIZE: bits of every key generate_key_pair makes
KEY_SIZE == 2048
\* length of the RSA prefix decrypt_rsa slices off (encrypted_data[:256])
WRAP_SLICE == 256
\* os.urandom(32) in generate_aes_key
AES_KEY_LEN == 32
\* os.urandom(12): the GCM IV
IV_LEN == 12
\* the GCM tag length: encrypted_data[-16:]
TAG_LEN == 16

(***************************************************************************)
(* Bounds of the model                                                     *)
(***************************************************************************)
\* key objects the caller holds (generated or loaded from PEM)
MaxKeys == 2
\* completed encrypt_rsa / encrypt_aes calls in one behaviour
MaxSeals == 2
\* symmetric keys the caller of encrypt_aes / decrypt_aes holds
MaxAesKeys == 2

\* decrypt_rsa outcomes a caller keeps to compare
MaxOpens == 2

\* modulus sizes (bits) of keys that load_private_key_from_pem may be given
\* besides those generate_key_pair makes
ForeignKeyBits == {4096}

HelloWorld == <<104, 101, 108, 108, 111, 32, 119, 111, 114, 108, 100>>

\* "" , "e-acute" (U+00E9, two UTF-8 bytes) and "hello world"
Plaintexts ==
    { <<>>, <<233>>, HelloWorld }

\* what a channel adversary adds (mod 256) to the byte it changes
TamperDeltas == {1, 128}

\* characters put into a text in transit: '!' and a line feed (outside the
\* base64 alphabet), 'A' (inside it), e-acute (not ASCII)
JunkChars == {33, 10, 65, 233}

Byte == 0..255

Min(a, b) == IF a < b THEN a ELSE b
Max(a, b) == IF a > b THEN a ELSE b

\* F applied to the value of v, with v evaluated once
Bind(v, F(_)) == CHOOSE r \in {F(x) : x \in {v}} : TRUE

(***************************************************************************)
(* Python sequence slicing                                                 *)
(***************************************************************************)
\* a slice index clamped the way Python clamps it (negative counts from
\* the end)
PyIndex(i, n) == IF i < 0 THEN Max(n + i, 0) ELSE Min(i, n)

\* s[lo:hi]
PySlice(s, lo, hi) == SubSeq(s, PyIndex(lo, Len(s)) + 1, PyIndex(hi, Len(s)))

\* s[lo:]
PySliceFrom(s, lo) == SubSeq(s, PyIndex(lo, Len(s)) + 1, Len(s))

\* s[:hi]
PySliceTo(s, hi) == SubSeq(s, 1, PyIndex(hi, Len(s)))

(***************************************************************************)
(* str.encode('utf-8') and bytes.decode('utf-8') (strict)                  *)
(***************************************************************************)
Utf8Char(c) ==
    IF c < 128 THEN <<c>>
    ELSE IF c < 2048 THEN <<192 + (c \div 64), 128 + (c % 64)>>
    ELSE IF c < 65536
         THEN <<224 + (c \div 4096), 128 + ((c \div 64) % 64), 128 + (c % 64)>>
    ELSE <<240 + (c \div 262144), 128 + ((c \div 4096) % 64),
           128 + ((c \div 64) % 64), 128 + (c % 64)>>

RECURSIVE Utf8EncodeRange(_, _, _)
\* the encodings of s[lo..hi], one after the other
Utf8EncodeRange(s, lo, hi) ==
    IF lo > hi THEN <<>>
    ELSE IF lo = hi THEN Utf8Char(s[lo])
    ELSE Utf8EncodeRange(s, lo, (lo + hi) \div 2)
         \o Utf8EncodeRange(s, ((lo + hi) \div 2) + 1, hi)

Utf8EncodeFrom(s, i) == Utf8EncodeRange(s, i, Len(s))

\* plaintext.encode('utf-8'), for strings of Unicode scalar values
Utf8Encode(s) == Utf8EncodeFrom(s, 1)

IsCont(b, i) == i <= Len(b) /\ b[i] >= 128 /\ b[i] < 192

\* the number of bytes of the character a lead byte starts, 0 for a byte
\* that starts none
Utf8Need(c) ==
    IF c < 128 THEN 1
    ELSE IF c >= 194 /\ c < 224 THEN 2
    ELSE IF c >= 224 /\ c < 240 THEN 3
    ELSE IF c >= 240 /\ c < 245 THEN 4
    ELSE 0

\* the code point of the bytes that start at b[i], for a lead byte followed
\* by its continuation bytes
Utf8Value(b, i) ==
    CASE Utf8Need(b[i]) = 2 -> (b[i] - 192) * 64 + (b[i + 1] - 128)
      [] Utf8Need(b[i]) = 3 ->
           (b[i] - 224) * 4096 + (b[i + 1] - 128) * 64 + (b[i + 2] - 128)
      [] Utf8Need(b[i]) = 4 ->
           (b[i] - 240) * 262144 + (b[i + 1] - 128) * 4096
           + (b[i + 2] - 128) * 64 + (b[i + 3] - 128)
      [] OTHER -> b[i]

\* the bytes that start at b[i] are one character: a lead byte, exactly
\* its continuation bytes, and a code point that is not overlong, no
\* surrogate and not above U+10FFFF
Utf8WellFormed(b, i) ==
    /\ Utf8Need(b[i]) > 0
    /\ \A k \in 1..(Utf8Need(b[i]) - 1) : IsCont(b, i + k)
    /\ ~IsCont(b, i + Utf8Need(b[i]))
    /\ Utf8Need(b[i]) = 3 =>
         ~(Utf8Value(b, i) < 2048
           \/ (Utf8Value(b, i) >= 55296 /\ Utf8Value(b, i) < 57344))
    /\ Utf8Need(b[i]) = 4 =>
         ~(Utf8Value(b, i) < 65536 \/ Utf8Value(b, i) > 1114111)

\* <<ok, code points>>: ok is FALSE where Python raises UnicodeDecodeError.
\* The decoder reads one character after the other; written without
\* recursion: a character starts at each byte that is no continuation byte.
Utf8Decode(b) ==
    LET IsStart(i) == ~IsCont(b, i)
        starts == SelectSeq([i \in 1..Len(b) |-> i], IsStart)
    IN  IF /\ b # <<>> => IsStart(1)
           /\ \A k \in 1..Len(starts) : Utf8WellFormed(b, starts[k])
        THEN [ok |-> TRUE,
              str |-> [k \in 1..Len(starts) |-> Utf8Value(b, starts[k])]]
        ELSE [ok |-> FALSE, str |-> <<>>]

(***************************************************************************)
(* base64.b64encode / base64.b64decode.  Text is a sequence of character   *)
(* codes; 61 is '='.                                                       *)
(***************************************************************************)
\* faulty variant: the URL-safe alphabet ('-' and '_' for 62 and 63)
B64Char_UrlSafe(v) ==
    IF v < 26 THEN 65 + v
    ELSE IF v < 52 THEN 97 + (v - 26)
    ELSE IF v < 62 THEN 48 + (v - 52)
    ELSE IF v = 62 THEN 45 ELSE 95

B64Char(v) ==
    IF v < 26 THEN 65 + v
    ELSE IF v < 52 THEN 97 + (v - 26)
    ELSE IF v < 62 THEN 48 + (v - 52)
    ELSE IF v = 62 THEN 43 ELSE 47

\* the 6-bit value of an alphabet character, 64 for any other character
B64Val(c) ==
    IF c >= 65 /\ c <= 90 THEN c - 65
    ELSE IF c >= 97 /\ c <= 122 THEN c - 97 + 26
    ELSE IF c >= 48 /\ c <= 57 THEN c - 48 + 52
    ELSE IF c = 43 THEN 62
    ELSE IF c = 47 THEN 63 ELSE 64

\* base64.b64encode(b).decode('utf-8'): standard alphabet, padded
b64encode(b) ==
    LET n == Len(b)
        byte(i) == IF i <= n THEN b[i] ELSE 0
        char(k) ==
            LET q  == (k - 1) \div 4
                r  == (k - 1) % 4
                b1 == byte(3 * q + 1)
                b2 == byte(3 * q + 2)
                b3 == byte(3 * q + 3)
            IN  CASE r = 0 -> B64Char(b1 \div 4)
                  [] r = 1 -> B64Char((b1 % 4) * 16 + (b2 \div 16))
                  [] r = 2 -> IF 3 * q + 2 > n THEN 61
                              ELSE B64Char((b2 % 16) * 4 + (b3 \div 64))
                  [] r = 3 -> IF 3 * q + 3 > n THEN 61 ELSE B64Char(b3 % 64)
    IN  [k \in 1..(4 * ((n + 2) \div 3)) |-> char(k)]

IsB64Data(c) == B64Val(c) < 64

IsB64DataOrPad(c) == c = 61 \/ B64Val(c) < 64

\* binascii.a2b_base64 in its default, non-strict mode: characters outside
\* the alphabet are skipped; a '=' met two or three characters into a
\* quantum counts as padding, and the pad that completes the quantum ends
\* the parse (whatever follows is ignored); a quantum left incomplete at the
\* end of the input raises binascii.Error.  Written without recursion: the
\* loop's state at a character is a function of the characters before it.
a2b_base64(s) ==
    LET t      == SelectSeq(s, IsB64DataOrPad)
        E      == {i \in 1..Len(t) : t[i] = 61}
        \* quad_pos when the scan reaches t[i]
        quad(i) == ((i - 1) - Cardinality({j \in E : j < i})) % 4
        \* pads once t[i], a '=', has been counted
        pads(i) == CHOOSE r \in 1..i :
                      /\ \A k \in (i - r + 1)..i : k \in E
                      /\ (i - r = 0 \/ (i - r) \notin E)
        stops  == {i \in E : quad(i) >= 2 /\ quad(i) + pads(i) >= 4}
        done   == stops # {}
        stop   == CHOOSE i \in stops : \A j \in stops : i <= j
        d      == SelectSeq(IF done THEN SubSeq(t, 1, stop - 1) ELSE t, IsB64Data)
        m      == Len(d)
        n      == (m \div 4) * 3 + (IF m % 4 < 2 THEN 0 ELSE (m % 4) - 1)
        out(k) ==
            LET g == (k - 1) \div 3
                r == (k - 1) % 3
                a == B64Val(d[4 * g + r + 1])
                b == B64Val(d[4 * g + r + 2])
            IN  CASE r = 0 -> a * 4 + (b \div 16)
                  [] r = 1 -> (a % 16) * 16 + (b \div 4)
                  [] r = 2 -> (a % 4) * 64 + b
    IN  IF ~done /\ m % 4 # 0
        THEN [ok |-> FALSE, bytes |-> <<>>]
        ELSE [ok |-> TRUE, bytes |-> [k \in 1..n |-> out(k)]]

\* base64.b64decode(s) for a str argument: the str is first encoded as
\* ASCII (ValueError for a character above 127)
b64decode(s) ==
    IF \E i \in 1..Len(s) : s[i] > 127
    THEN [ok |-> FALSE, err |-> "ValueError", bytes |-> <<>>]
    ELSE Bind(a2b_base64(s), LAMBDA r :
           [ok |-> r.ok, err |-> IF r.ok THEN "" ELSE "binascii.Error",
            bytes |-> r.bytes])

(***************************************************************************)
(* The random source and the library primitives                            *)
(***************************************************************************)
\* a sum that keeps every single-byte change visible (odd weights mod 256)
RECURSIVE WeightedSum(_, _, _)
WeightedSum(s, lo, hi) ==
    IF lo > hi THEN 0
    ELSE IF lo = hi THEN (2 * lo - 1) * s[lo]
    ELSE LET mid == (lo + hi) \div 2 IN
         WeightedSum(s, lo, mid) + WeightedSum(s, mid + 1, hi)

Digest(s) == WeightedSum(s, 1, Len(s)) % 256

\* os.urandom(n): the d-th draw from the process-wide random source.  Draws
\* are pairwise distinct byte strings (the source does not repeat).
urandom(n, d) == [i \in 1..n |-> IF i = 1 THEN d % 256 ELSE (7 * d + i) % 256]

\* key.key_size // 8: the length of every RSA ciphertext under the key
ModBytes(key) == key.bits \div 8

\* what OAEP's hash/mask check recomputes at decryption: one value bound to
\* the message bytes, one bound to the message length
OaepCheck(key, seed, msg) ==
    <<(key.id * 37 + seed * 3 + Digest(msg)) % 256,
      (key.id * 41 + seed + Len(msg) * 5) % 256>>

OaepPad(c, j) == (c[1 + (j % 2)] + 3 * j) % 256

\* public_key.encrypt(msg, OAEP(MGF1(SHA256), SHA256, None)); seed is the
\* padding's own random draw.  ok is FALSE (ValueError) when msg does not
\* fit under the modulus: OAEP with SHA-256 needs 2 * 32 + 2 bytes.
RsaOaepEncrypt(key, msg, seed) ==
    IF Len(msg) > ModBytes(key) - 66
    THEN [ok |-> FALSE, bytes |-> <<>>]
    ELSE CHOOSE r \in
           { [ok |-> TRUE,
              bytes |-> [j \in 1..ModBytes(key) |->
                  IF j = 1 THEN seed % 256
                  ELSE IF j = 2 THEN Len(msg)
                  ELSE IF j <= 2 + Len(msg)
                       THEN (msg[j - 2] + seed + key.id * 29) % 256
                  ELSE OaepPad(c, j)]]
             : c \in {OaepCheck(key, seed % 256, msg)} }
           : TRUE

\* private_key.decrypt(w, OAEP(...)): ValueError when w is not as long as
\* the modulus, ValueError when the padding does not verify under this key
RsaOaepDecrypt(key, w) ==
    IF Len(w) # ModBytes(key) \/ w[2] > ModBytes(key) - 66
    THEN [ok |-> FALSE, bytes |-> <<>>]
    ELSE \* the message and the check are each computed once
         CHOOSE r \in
           { IF \E c \in {OaepCheck(key, w[1], msg)} :
                   \A j \in (3 + w[2])..ModBytes(key) : w[j] = OaepPad(c, j)
             THEN [ok |-> TRUE, bytes |-> msg]
             ELSE [ok |-> FALSE, bytes |-> <<>>]
             : msg \in {[i \in 1..w[2] |-> (w[2 + i] - w[1] - key.id * 29) % 256]} }
           : TRUE

\* algorithms.AES(key): ValueError unless the key is 128, 192 or 256 bits
AesKeyOk(key) == Len(key) \in {16, 24, 32}

\* modes.GCM(iv) / modes.GCM(iv, tag): ValueError unless the IV has 8..128
\* bytes and a given tag has at least 16 (min_tag_length) bytes
GcmIvOk(iv) == Len(iv) >= 8 /\ Len(iv) <= 128

GcmTagOk(tag) == Len(tag) >= 16

\* AES in counter mode under (key, iv): the keystream is base + 13 * i
KeystreamBase(key, iv) == (Digest(key) * 7 + Digest(iv) * 11) % 256

\* encryptor.update(pt) + encryptor.finalize(): as many bytes as pt has
GcmEncrypt(key, iv, pt) ==
    CHOOSE ct \in { [i \in 1..Len(pt) |-> (pt[i] + ks + 13 * i) % 256]
                    : ks \in {KeystreamBase(key, iv)} } : TRUE

\* decryptor.update(ct): the decrypted bytes, computed before the tag is
\* looked at
GcmDecrypt(key, iv, ct) ==
    CHOOSE pt \in { [i \in 1..Len(ct) |-> (ct[i] - ks - 13 * i) % 256]
                    : ks \in {KeystreamBase(key, iv)} } : TRUE

\* encryptor.tag: 16 bytes determined by key, IV and ciphertext (no
\* associated data)
GcmTag(key, iv, ct) ==
    CHOOSE tag \in { [j \in 1..TAG_LEN |-> (h + j * 17) % 256]
                     : h \in {(Digest(key) * 3 + Digest(iv) * 5 + Digest(ct)
                               + Len(ct) * 9) % 256} } : TRUE

\* decryptor.finalize(): recomputes the tag and compares; FALSE is
\* cryptography.exceptions.InvalidTag
GcmVerify(key, iv, ct, tag) == tag = GcmTag(key, iv, ct)

(***************************************************************************)
(* State                                                                   *)
(***************************************************************************)
VARIABLES
    keyring,   \* the RSA key objects the caller holds, in order of creation
    aeskeys,   \* the symmetric keys the caller of encrypt_aes holds
    rng,       \* number of draws made so far from the random source
    call,      \* the CryptoUtils call in progress: arguments, locals, outcome
    sealed,    \* history: one record per completed encrypt_rsa / encrypt_aes
    wire,      \* the text in transit between the sealing and the opening side
    opened,    \* history: the outcomes of decrypt_rsa calls the caller kept
    peer,      \* the CryptoUtils call in progress in a second thread
    USER_DATA,       \* backend/main.py: user_id -> public_key, messages, created_at
    MESSAGE_QUEUE,   \* backend/main.py: the stored messages, oldest first
    request,         \* the HTTP request the relay handled last
    response,        \* the HTTP response the relay gave to it
    seen,            \* history: per user seen since the last clear, the ids
                     \* the relay gave for the user's accepted asks, in order,
                     \* and the first public key it gave the user
    ENVIRONMENT,     \* backend/main_production.py: the module global, once
                     \* the module is loaded
    clock,           \* the milliseconds datetime.utcnow() has counted
    issued,          \* history: the accepted asks of main_production, in order
    main             \* phase-0/python-agent/agent.py: the position in main()
                     \* and its local variables

\* the relay backend's module globals, its last exchange and its history
relay == <<USER_DATA, MESSAGE_QUEUE, request, response, seen,
           ENVIRONMENT, clock, issued>>

\* what belongs to main_production alone
production == <<ENVIRONMENT, clock, issued>>

\* what no statement of a call in the first thread touches
elsewhere == <<opened, peer, main, USER_DATA, MESSAGE_QUEUE, request, response, seen,
               ENVIRONMENT, clock, issued>>

\* what no relay handler touches
agent == <<keyring, aeskeys, rng, call, sealed, wire, opened, peer, main>>

vars == <<keyring, aeskeys, rng, call, sealed, wire, opened, peer,
          USER_DATA, MESSAGE_QUEUE, request, response, seen,
          ENVIRONMENT, clock, issued, main>>

\* no call in progress; also the locals a call starts with
NoCall ==
    [op |-> "idle", pc |-> "idle", arg_text |-> <<>>, arg_key |-> 0,
     aes_key |-> <<>>, iv |-> <<>>, ciphertext |-> <<>>, tag |-> <<>>,
     encrypted_aes_key |-> <<>>, encrypted_data |-> <<>>, remaining |-> <<>>,
     updated |-> <<>>, plaintext |-> <<>>,
     status |-> "none", value |-> <<>>, err |-> "", log |-> <<>>, rng0 |-> 0]

NoWire == [text |-> <<>>, src |-> 0, mod |-> "none"]

NewCall(op, pc, text, k, d) ==
    [NoCall EXCEPT !.op = op, !.pc = pc, !.arg_text = text, !.arg_key = k,
                   !.status = "running", !.rng0 = d]

\* faulty variant: the bytes decrypted so far leave the call with the exception
Raise_Partial(c, e) ==
    [c EXCEPT !.status = "raised", !.err = e, !.pc = "end", !.value = c.updated]

\* the call ends by raising exception e: nothing is returned
Raise(c, e) == [c EXCEPT !.status = "raised", !.err = e, !.pc = "end"]

\* the call ends by returning v
Return(c, v) == [c EXCEPT !.status = "returned", !.value = v, !.pc = "end"]

\* the call performs library operation o
Did(c, o) == [c EXCEPT !.log = Append(@, o)]

(***************************************************************************)
(* Key objects                                                             *)
(***************************************************************************)
\* faulty variant: every key object carries the same key material
NewKey_Same(id, bits, origin) ==
    [id |-> 1, bits |-> bits, origin |-> origin, alg |-> "rsa"]

\* rsa.generate_private_key(65537, KEY_SIZE): a new RSA key object
NewKey(id, bits, origin) ==
    [id |-> id, bits |-> bits, origin |-> origin, alg |-> "rsa"]

generate_key_pair ==
    /\ call.op = "idle"
    /\ Len(keyring) < MaxKeys
    /\ keyring' = Append(keyring, NewKey(Len(keyring) + 1, KEY_SIZE, "generated"))
    /\ UNCHANGED <<aeskeys, rng, call, sealed, wire>>
    /\ UNCHANGED elsewhere

\* the texts handed to the two loaders: PEMs of RSA keys of a foreign size,
\* PEMs of elliptic-curve keys, and text that is no PEM at all
PemTexts ==
    {[form |-> "pem", alg |-> "rsa", bits |-> b, half |-> h] :
        b \in ForeignKeyBits, h \in {"private", "public"}}
    \cup {[form |-> "pem", alg |-> "ec", bits |-> 256, half |-> h] :
        h \in {"private", "public"}}
    \cup {[form |-> "garbage", alg |-> "none", bits |-> 0, half |-> "none"]}

\* serialization.load_pem_private_key / load_pem_public_key: ValueError for
\* text that does not parse as a key of the wanted half, else a key object
\* of whatever algorithm the PEM holds
load_pem(pem, half) ==
    IF pem.form = "pem" /\ pem.half = half
    THEN [ok |-> TRUE, err |-> "", alg |-> pem.alg, bits |-> pem.bits]
    ELSE [ok |-> FALSE, err |-> "ValueError", alg |-> "none", bits |-> 0]

\* the loader `op` applied to pem: the key object is returned to the caller
\* as the library made it, an exception of the library leaves the loader
LoadKey(op, pem, half, origin) ==
    LET r == load_pem(pem, half) IN
    IF r.ok
    THEN /\ keyring' = Append(keyring,
                 [NewKey(Len(keyring) + 1, r.bits, origin) EXCEPT !.alg = r.alg])
         /\ UNCHANGED call
    ELSE /\ call' = Raise(Did(NewCall(op, "load_pem", <<>>, 0, rng), "load_pem"),
                          r.err)
         /\ UNCHANGED keyring

\* load_private_key_from_pem on the PEM of a key made elsewhere: whatever
\* the PEM holds
load_private_key_from_pem ==
    /\ call.op = "idle"
    /\ Len(keyring) < MaxKeys
    /\ \E pem \in PemTexts :
         LoadKey("load_private_key_from_pem", pem, "private", "loaded")
    /\ UNCHANGED <<aeskeys, rng, sealed, wire>>
    /\ UNCHANGED elsewhere

\* load_public_key_from_pem: the key object has the public half only
load_public_key_from_pem ==
    /\ call.op = "idle"
    /\ Len(keyring) < MaxKeys
    /\ \E pem \in PemTexts :
         LoadKey("load_public_key_from_pem", pem, "public", "loaded_public")
    /\ UNCHANGED <<aeskeys, rng, sealed, wire>>
    /\ UNCHANGED elsewhere

\* key objects with an encrypt method (RSA public keys) / a decrypt method
\* (RSA private keys); calling the method on another object is an
\* AttributeError
CanEncrypt(key) == key.alg = "rsa"

CanDecrypt(key) == key.alg = "rsa" /\ key.origin # "loaded_public"

\* faulty variant: the key is drawn once and kept for every later call
generate_aes_key_cached(d) == urandom(AES_KEY_LEN, 1)

\* generate_aes_key(): 32 bytes from os.urandom, draw number d
generate_aes_key(d) == urandom(AES_KEY_LEN, d)

\* a caller of encrypt_aes / decrypt_aes makes itself a key
GenerateAesKey ==
    /\ call.op = "idle"
    /\ Len(aeskeys) < MaxAesKeys
    /\ aeskeys' = Append(aeskeys, generate_aes_key(rng + 1))
    /\ rng' = rng + 1
    /\ UNCHANGED <<keyring, call, sealed, wire>>
    /\ UNCHANGED elsewhere

(***************************************************************************)
(* encrypt_rsa(plaintext, public_key), statement by statement              *)
(***************************************************************************)
\* faulty variant: the tag is written before the ciphertext
Combine_TagFirst(w, iv, ct, tag) == w \o iv \o tag \o ct

\* combined = encrypted_aes_key + iv + ciphertext + encryptor.tag
Combine(w, iv, ct, tag) == w \o iv \o ct \o tag

\* faulty variant: one cipher object for all callers, set up with the IV
\* drawn last by any of them
AesGcmEncryptStep_Shared(c, next) ==
    IF ~AesKeyOk(c.aes_key) \/ ~GcmIvOk(c.iv)
    THEN Raise(Did(c, "aes_gcm_encrypt"), "ValueError")
    ELSE Bind(GcmEncrypt(c.aes_key, urandom(IV_LEN, rng), Utf8Encode(c.arg_text)),
              LAMBDA ct :
           [Did(c, "aes_gcm_encrypt") EXCEPT
               !.ciphertext = ct,
               !.tag = GcmTag(c.aes_key, urandom(IV_LEN, rng), ct),
               !.pc = next])

\* Cipher(AES(key), GCM(iv)); encryptor.update(plaintext.encode('utf-8'))
\* + encryptor.finalize(); then encryptor.tag
AesGcmEncryptStep(c, next) ==
    IF ~AesKeyOk(c.aes_key) \/ ~GcmIvOk(c.iv)
    THEN Raise(Did(c, "aes_gcm_encrypt"), "ValueError")
    ELSE Bind(GcmEncrypt(c.aes_key, c.iv, Utf8Encode(c.arg_text)), LAMBDA ct :
           [Did(c, "aes_gcm_encrypt") EXCEPT
               !.ciphertext = ct,
               !.tag = GcmTag(c.aes_key, c.iv, ct),
               !.pc = next])

\* the call after its next statement; d is the number of draws made before
encrypt_rsa_step(c, key, d) ==
    CASE c.pc = "generate_aes_key" ->
           [Did(c, "urandom") EXCEPT !.aes_key = generate_aes_key(d + 1),
                                     !.pc = "urandom_iv"]
      [] c.pc = "urandom_iv" ->
           [Did(c, "urandom") EXCEPT !.iv = urandom(IV_LEN, d + 1),
                                     !.pc = "aes_gcm_encrypt"]
      [] c.pc = "aes_gcm_encrypt" -> AesGcmEncryptStep(c, "rsa_encrypt")
      [] c.pc = "rsa_encrypt" ->
           IF ~CanEncrypt(key)
           THEN Raise(Did(c, "rsa_encrypt"), "AttributeError")
           ELSE
           Bind(RsaOaepEncrypt(key, c.aes_key, d + 1), LAMBDA r :
             IF r.ok
             THEN [Did(c, "rsa_encrypt") EXCEPT !.encrypted_aes_key = r.bytes,
                                                !.pc = "combine"]
             ELSE Raise(Did(c, "rsa_encrypt"), "ValueError"))
      [] c.pc = "combine" ->
           Bind(Combine(c.encrypted_aes_key, c.iv, c.ciphertext, c.tag),
                LAMBDA combined :
             Return([Did(c, "b64encode") EXCEPT !.encrypted_data = combined],
                    b64encode(combined)))

\* the statements that draw from the random source
Draws(pc) == IF pc \in {"generate_aes_key", "urandom_iv", "rsa_encrypt"} THEN 1 ELSE 0

StartEncryptRsa ==
    /\ call.op = "idle"
    /\ \E pt \in Plaintexts, k \in 1..Len(keyring) :
         call' = NewCall("encrypt_rsa", "generate_aes_key", pt, k, rng)
    /\ UNCHANGED <<keyring, aeskeys, rng, sealed, wire>>
    /\ UNCHANGED elsewhere

EncryptRsaStep ==
    /\ call.op = "encrypt_rsa"
    /\ call.status = "running"
    /\ call' = encrypt_rsa_step(call, keyring[call.arg_key], rng)
    /\ rng' = rng + Draws(call.pc)
    /\ UNCHANGED <<keyring, aeskeys, sealed, wire>>
    /\ UNCHANGED elsewhere

(***************************************************************************)
(* decrypt_rsa(encrypted_data_b64, private_key), statement by statement    *)
(***************************************************************************)
\* encrypted_aes_key = encrypted_data[:256]
SliceWrappedKey(data) == PySliceTo(data, WRAP_SLICE)

\* remaining = encrypted_data[256:]
SliceRemaining(data) == PySliceFrom(data, WRAP_SLICE)

\* iv = remaining[:12]
SliceIv(rem) == PySliceTo(rem, IV_LEN)

\* faulty variant: the ciphertext slice ends one byte early (remaining[12:-17])
SliceCiphertext_Short(rem) == PySlice(rem, IV_LEN, 0 - (TAG_LEN + 1))

\* ciphertext = remaining[12:-16]
SliceCiphertext(rem) == PySlice(rem, IV_LEN, 0 - TAG_LEN)

\* tag = remaining[-16:]
SliceTag(rem) == PySliceFrom(rem, 0 - TAG_LEN)

\* iv, ciphertext, tag = the three slices; Cipher(AES(key), GCM(iv, tag))
GcmInitStep(c) ==
    LET iv  == SliceIv(c.remaining)
        ct  == SliceCiphertext(c.remaining)
        tag == SliceTag(c.remaining)
        c1  == [Did(c, "aes_gcm_init") EXCEPT !.iv = iv, !.ciphertext = ct,
                                               !.tag = tag]
    IN  IF AesKeyOk(c.aes_key) /\ GcmIvOk(iv) /\ GcmTagOk(tag)
        THEN [c1 EXCEPT !.pc = "gcm_update"]
        ELSE Raise(c1, "ValueError")

\* faulty variant: the bytes update() produced are handed on without finalize()
GcmUpdateStep_Release(c) ==
    [Did(c, "gcm_update") EXCEPT
        !.updated = GcmDecrypt(c.aes_key, c.iv, c.ciphertext),
        !.plaintext = GcmDecrypt(c.aes_key, c.iv, c.ciphertext),
        !.pc = "utf8_decode"]

\* decryptor.update(ciphertext): the left operand of line 179
GcmUpdateStep(c) ==
    [Did(c, "gcm_update") EXCEPT
        !.updated = GcmDecrypt(c.aes_key, c.iv, c.ciphertext),
        !.pc = "gcm_finalize"]

\* faulty variant: finalize() is not called, the tag is never compared
GcmFinalizeStep_NoVerify(c) ==
    [Did(c, "gcm_finalize") EXCEPT !.plaintext = c.updated, !.pc = "utf8_decode"]

\* faulty variant: after a first InvalidTag the cipher is run once more
GcmFinalizeStep_Retry(c) ==
    IF GcmVerify(c.aes_key, c.iv, c.ciphertext, c.tag)
    THEN [Did(c, "gcm_finalize") EXCEPT !.plaintext = c.updated,
                                        !.pc = "utf8_decode"]
    ELSE IF "gcm_finalize" \in {c.log[i] : i \in 1..Len(c.log)}
         THEN Raise(Did(c, "gcm_finalize"), "InvalidTag")
         ELSE [Did(c, "gcm_finalize") EXCEPT !.pc = "gcm_update"]

\* decryptor.finalize(): InvalidTag leaves `plaintext` unassigned
GcmFinalizeStep(c) ==
    IF GcmVerify(c.aes_key, c.iv, c.ciphertext, c.tag)
    THEN [Did(c, "gcm_finalize") EXCEPT !.plaintext = c.updated,
                                        !.pc = "utf8_decode"]
    ELSE Raise(Did(c, "gcm_finalize"), "InvalidTag")

\* return plaintext.decode('utf-8')
Utf8DecodeStep(c) ==
    Bind(Utf8Decode(c.plaintext), LAMBDA r :
      IF r.ok THEN Return(Did(c, "utf8_decode"), r.str)
      ELSE Raise(Did(c, "utf8_decode"), "UnicodeDecodeError"))

\* encrypted_data = base64.b64decode(...), then the two slices of lines
\* 154-155 (slicing cannot fail)
B64DecodeStep(c) ==
    Bind(b64decode(c.arg_text), LAMBDA r :
      IF r.ok
      THEN [Did(c, "b64decode") EXCEPT
               !.encrypted_data = r.bytes,
               !.encrypted_aes_key = SliceWrappedKey(r.bytes),
               !.remaining = SliceRemaining(r.bytes),
               !.pc = "rsa_decrypt"]
      ELSE Raise(Did(c, "b64decode"), r.err))

\* faulty variant: a failed unwrap is swallowed and the call goes on with a zero key
RsaDecryptStep_Continue(c, key) ==
    Bind(RsaOaepDecrypt(key, c.encrypted_aes_key), LAMBDA r :
      [Did(c, "rsa_decrypt") EXCEPT
          !.aes_key = IF r.ok THEN r.bytes ELSE [i \in 1..AES_KEY_LEN |-> 0],
          !.pc = "aes_gcm_init"])

\* faulty variant: an envelope that was opened once is refused afterwards
RsaDecryptStep_Replay(c, key) ==
    IF \E i \in 1..Len(opened) :
          opened[i].src = wire.src /\ opened[i].status = "returned"
    THEN Raise(Did(c, "rsa_decrypt"), "ValueError")
    ELSE Bind(RsaOaepDecrypt(key, c.encrypted_aes_key), LAMBDA r :
           IF r.ok
           THEN [Did(c, "rsa_decrypt") EXCEPT !.aes_key = r.bytes,
                                              !.pc = "aes_gcm_init"]
           ELSE Raise(Did(c, "rsa_decrypt"), "ValueError"))

\* aes_key = private_key.decrypt(encrypted_aes_key, OAEP(...)): an
\* exception of the library leaves decrypt_rsa at once
RsaDecryptStep(c, key) ==
    IF ~CanDecrypt(key)
    THEN Raise(Did(c, "rsa_decrypt"), "AttributeError")
    ELSE
    Bind(RsaOaepDecrypt(key, c.encrypted_aes_key), LAMBDA r :
      IF r.ok
      THEN [Did(c, "rsa_decrypt") EXCEPT !.aes_key = r.bytes,
                                         !.pc = "aes_gcm_init"]
      ELSE Raise(Did(c, "rsa_decrypt"), "ValueError"))

decrypt_rsa_step(c, key) ==
    CASE c.pc = "b64decode" -> B64DecodeStep(c)
      [] c.pc = "rsa_decrypt" -> RsaDecryptStep(c, key)
      [] c.pc = "aes_gcm_init" -> GcmInitStep(c)
      [] c.pc = "gcm_update" -> GcmUpdateStep(c)
      [] c.pc = "gcm_finalize" -> GcmFinalizeStep(c)
      [] c.pc = "utf8_decode" -> Utf8DecodeStep(c)

StartDecryptRsa ==
    /\ call.op = "idle"
    /\ wire.src > 0
    /\ sealed[wire.src].op = "encrypt_rsa"
    /\ \E k \in 1..Len(keyring) :
         call' = NewCall("decrypt_rsa", "b64decode", wire.text, k, rng)
    /\ UNCHANGED <<keyring, aeskeys, rng, sealed, wire>>
    /\ UNCHANGED elsewhere

DecryptRsaStep ==
    /\ call.op = "decrypt_rsa"
    /\ call.status = "running"
    /\ call' = decrypt_rsa_step(call, keyring[call.arg_key])
    /\ UNCHANGED <<keyring, aeskeys, rng, sealed, wire>>
    /\ UNCHANGED elsewhere

(***************************************************************************)
(* encrypt_aes(plaintext, aes_key) and decrypt_aes(encrypted_data_b64,     *)
(* aes_key), statement by statement                                        *)
(***************************************************************************)
encrypt_aes_step(c, aes_key, d) ==
    CASE c.pc = "urandom_iv" ->
           [Did(c, "urandom") EXCEPT !.aes_key = aes_key,
                                     !.iv = urandom(IV_LEN, d + 1),
                                     !.pc = "aes_gcm_encrypt"]
      [] c.pc = "aes_gcm_encrypt" -> AesGcmEncryptStep(c, "combine")
      [] c.pc = "combine" ->
           \* encrypted_data = iv + ciphertext + encryptor.tag
           Bind(Combine(<<>>, c.iv, c.ciphertext, c.tag), LAMBDA combined :
             Return([Did(c, "b64encode") EXCEPT !.encrypted_data = combined],
                    b64encode(combined)))

StartEncryptAes ==
    /\ call.op = "idle"
    /\ \E pt \in Plaintexts, k \in 1..Len(aeskeys) :
         call' = NewCall("encrypt_aes", "urandom_iv", pt, k, rng)
    /\ UNCHANGED <<keyring, aeskeys, rng, sealed, wire>>
    /\ UNCHANGED elsewhere

EncryptAesStep ==
    /\ call.op = "encrypt_aes"
    /\ call.status = "running"
    /\ call' = encrypt_aes_step(call, aeskeys[call.arg_key], rng)
    /\ rng' = rng + Draws(call.pc)
    /\ UNCHANGED <<keyring, aeskeys, sealed, wire>>
    /\ UNCHANGED elsewhere

\* decrypt_aes slices the decoded bytes themselves: [:12], [12:-16], [-16:]
decrypt_aes_step(c, aes_key) ==
    CASE c.pc = "b64decode" ->
           Bind(b64decode(c.arg_text), LAMBDA r :
             IF r.ok
             THEN [Did(c, "b64decode") EXCEPT
                      !.encrypted_data = r.bytes,
                      !.remaining = r.bytes,
                      !.aes_key = aes_key,
                      !.pc = "aes_gcm_init"]
             ELSE Raise(Did(c, "b64decode"), r.err))
      [] c.pc = "aes_gcm_init" -> GcmInitStep(c)
      [] c.pc = "gcm_update" -> GcmUpdateStep(c)
      [] c.pc = "gcm_finalize" -> GcmFinalizeStep(c)
      [] c.pc = "utf8_decode" -> Utf8DecodeStep(c)

StartDecryptAes ==
    /\ call.op = "idle"
    /\ wire.src > 0
    /\ sealed[wire.src].op = "encrypt_aes"
    /\ \E k \in 1..Len(aeskeys) :
         call' = NewCall("decrypt_aes", "b64decode", wire.text, k, rng)
    /\ UNCHANGED <<keyring, aeskeys, rng, sealed, wire>>
    /\ UNCHANGED elsewhere

DecryptAesStep ==
    /\ call.op = "decrypt_aes"
    /\ call.status = "running"
    /\ call' = decrypt_aes_step(call, aeskeys[call.arg_key])
    /\ UNCHANGED <<keyring, aeskeys, rng, sealed, wire>>
    /\ UNCHANGED elsewhere

(***************************************************************************)
(* The caller takes the outcome; a returned envelope goes on the wire      *)
(***************************************************************************)
SealRecord(c, d) ==
    [op |-> c.op, plaintext |-> c.arg_text, key |-> c.arg_key,
     aes_key |-> c.aes_key, iv |-> c.iv, ciphertext |-> c.ciphertext,
     tag |-> c.tag, encrypted_aes_key |-> c.encrypted_aes_key,
     data |-> c.encrypted_data, text |-> c.value,
     first_draw |-> c.rng0 + 1, last_draw |-> d]

Finish ==
    /\ call.status \in {"returned", "raised"}
    /\ call' = NoCall
    /\ IF call.status = "returned" /\ call.op \in {"encrypt_rsa", "encrypt_aes"}
       THEN /\ sealed' = Append(sealed, SealRecord(call, rng))
            /\ wire' = [text |-> call.value, src |-> Len(sealed) + 1, mod |-> "none"]
       ELSE UNCHANGED <<sealed, wire>>
    /\ UNCHANGED <<keyring, aeskeys, rng>>
    /\ UNCHANGED elsewhere

\* the caller hands an envelope it received earlier to decrypt_rsa again
Resend ==
    /\ call.op = "idle"
    /\ \E i \in 1..Len(sealed) :
         /\ sealed[i].op = "encrypt_rsa"
         /\ i # wire.src
         /\ wire' = [text |-> sealed[i].text, src |-> i, mod |-> "none"]
    /\ UNCHANGED <<keyring, aeskeys, rng, call, sealed, opened, peer>>
    /\ UNCHANGED <<main, relay>>

\* the caller of decrypt_rsa keeps what the call gave: the value returned or
\* the exception raised
FinishOpen ==
    /\ call.op = "decrypt_rsa"
    /\ call.status \in {"returned", "raised"}
    /\ Len(opened) < MaxOpens
    /\ opened' = Append(opened,
                        [src |-> wire.src, key |-> call.arg_key, at |-> call.rng0,
                         status |-> call.status, value |-> call.value,
                         err |-> call.err])
    /\ call' = NoCall
    /\ UNCHANGED <<keyring, aeskeys, rng, sealed, wire, peer>>
    /\ UNCHANGED <<main, relay>>

(***************************************************************************)
(* A second thread making CryptoUtils calls of its own.  A statement of    *)
(* either thread is one step; os.urandom hands each draw to one caller.    *)
(***************************************************************************)
PeerStartEncryptRsa ==
    /\ peer.op = "idle"
    /\ \E pt \in Plaintexts, k \in 1..Len(keyring) :
         peer' = NewCall("encrypt_rsa", "generate_aes_key", pt, k, rng)
    /\ UNCHANGED <<keyring, aeskeys, rng, call, sealed, wire, opened>>
    /\ UNCHANGED <<main, relay>>

PeerStartDecryptRsa ==
    /\ peer.op = "idle"
    /\ wire.src > 0
    /\ sealed[wire.src].op = "encrypt_rsa"
    /\ \E k \in 1..Len(keyring) :
         peer' = NewCall("decrypt_rsa", "b64decode", wire.text, k, rng)
    /\ UNCHANGED <<keyring, aeskeys, rng, call, sealed, wire, opened>>
    /\ UNCHANGED <<main, relay>>

PeerEncryptRsaStep ==
    /\ peer.op = "encrypt_rsa"
    /\ peer.status = "running"
    /\ peer' = encrypt_rsa_step(peer, keyring[peer.arg_key], rng)
    /\ rng' = rng + Draws(peer.pc)
    /\ UNCHANGED <<keyring, aeskeys, call, sealed, wire, opened>>
    /\ UNCHANGED <<main, relay>>

PeerDecryptRsaStep ==
    /\ peer.op = "decrypt_rsa"
    /\ peer.status = "running"
    /\ peer' = decrypt_rsa_step(peer, keyring[peer.arg_key])
    /\ UNCHANGED <<keyring, aeskeys, rng, call, sealed, wire, opened>>
    /\ UNCHANGED <<main, relay>>

PeerFinish ==
    /\ peer.status \in {"returned", "raised"}
    /\ peer' = NoCall
    /\ IF peer.status = "returned" /\ peer.op = "encrypt_rsa"
       THEN /\ sealed' = Append(sealed, SealRecord(peer, rng))
            /\ wire' = [text |-> peer.value, src |-> Len(sealed) + 1, mod |-> "none"]
       ELSE UNCHANGED <<sealed, wire>>
    /\ UNCHANGED <<keyring, aeskeys, rng, call, opened>>
    /\ UNCHANGED <<main, relay>>

(***************************************************************************)
(* The untrusted channel                                                   *)
(***************************************************************************)
\* one byte of the envelope in transit is changed
Tamper ==
    /\ call.op = "idle"
    /\ wire.src > 0
    /\ wire.mod = "none"
    /\ \E pos \in 1..Len(sealed[wire.src].data), delta \in TamperDeltas :
         wire' = [wire EXCEPT
                    !.text = b64encode([sealed[wire.src].data EXCEPT
                                           ![pos] = (@ + delta) % 256]),
                    !.mod = "flip"]
    /\ UNCHANGED <<keyring, aeskeys, rng, call, sealed>>
    /\ UNCHANGED elsewhere

\* only the first n bytes of the envelope arrive
Truncate ==
    /\ call.op = "idle"
    /\ wire.src > 0
    /\ wire.mod = "none"
    /\ \E n \in 0..(Len(sealed[wire.src].data) - 1) :
         wire' = [wire EXCEPT !.text = b64encode(SubSeq(sealed[wire.src].data, 1, n)),
                              !.mod = "cut"]
    /\ UNCHANGED <<keyring, aeskeys, rng, call, sealed>>
    /\ UNCHANGED elsewhere

\* the text itself is damaged in transit: its last character is replaced, or
\* a character is added behind it
Garble ==
    /\ call.op = "idle"
    /\ wire.src > 0
    /\ wire.mod = "none"
    /\ \E ch \in JunkChars :
         \/ wire' = [wire EXCEPT !.text = [@ EXCEPT ![Len(@)] = ch], !.mod = "junk"]
         \/ wire' = [wire EXCEPT !.text = Append(@, ch), !.mod = "junk"]
    /\ wire'.text # wire.text
    /\ UNCHANGED <<keyring, aeskeys, rng, call, sealed>>
    /\ UNCHANGED elsewhere

(***************************************************************************)
(* The relay backend, backend/main.py.  A str is the sequence of its code  *)
(* points; an Optional value is None or Some(v).  A handler has no await   *)
(* in it: it runs from its first statement to its response in one step.    *)
(***************************************************************************)
None == [some |-> FALSE, val |-> <<>>]

Some(v) == [some |-> TRUE, val |-> v]

\* s.startswith(p)
StartsWith(s, p) == Len(s) >= Len(p) /\ SubSeq(s, 1, Len(p)) = p

\* s.replace(old, new): every occurrence of old, found left to right
RECURSIVE Replace(_, _, _)
Replace(s, old, new) ==
    IF Len(s) < Len(old) THEN s
    ELSE IF StartsWith(s, old)
         THEN new \o Replace(SubSeq(s, Len(old) + 1, Len(s)), old, new)
         ELSE <<s[1]>> \o Replace(Tail(s), old, new)

\* the characters of Latin-1 for which str.isspace() holds
Whitespace == {9, 10, 11, 12, 13, 28, 29, 30, 31, 32, 133, 160}

RECURSIVE LStrip(_)
LStrip(s) == IF s # <<>> /\ s[1] \in Whitespace THEN LStrip(Tail(s)) ELSE s

RECURSIVE RStrip(_)
RStrip(s) ==
    IF s # <<>> /\ s[Len(s)] \in Whitespace
    THEN RStrip(SubSeq(s, 1, Len(s) - 1))
    ELSE s

\* s.strip()
Strip(s) == RStrip(LStrip(s))

\* s.split(sep) for a separator of one character
RECURSIVE Split(_, _)
Split(s, sep) ==
    IF \A i \in 1..Len(s) : s[i] # sep
    THEN <<s>>
    ELSE Bind(CHOOSE i \in 1..Len(s) :
                  s[i] = sep /\ \A j \in 1..(i - 1) : s[j] # sep,
              LAMBDA i : <<SubSeq(s, 1, i - 1)>>
                         \o Split(SubSeq(s, i + 1, Len(s)), sep))

\* "Bearer ", "github|" and "|"
Bearer == <<66, 101, 97, 114, 101, 114, 32>>

GithubBar == <<103, 105, 116, 104, 117, 98, 124>>

Bar == 124

\* raise HTTPException(status_code, detail)
HTTPException(status_code, detail) ==
    [raised |-> TRUE, status_code |-> status_code, detail |-> detail,
     user_id |-> <<>>]

\* verify_github_token(authorization): the user_id, or the HTTPException
verify_github_token(authorization) ==
    IF \/ ~authorization.some
       \/ authorization.val = <<>>
       \/ ~StartsWith(authorization.val, Bearer)
    THEN HTTPException(401, "Missing or invalid Authorization header")
    ELSE Bind(Strip(Replace(authorization.val, Bearer, <<>>)), LAMBDA token :
           IF ~StartsWith(token, GithubBar)
           THEN HTTPException(401, "Invalid token format")
           ELSE Bind(Split(token, Bar), LAMBDA parts :
                  IF Len(parts) # 3
                  THEN HTTPException(401, "Invalid token format")
                  ELSE [raised |-> FALSE, status_code |-> 0, detail |-> "",
                        user_id |-> parts[2]]))

\* main_production.py: ENVIRONMENT = os.getenv('ENVIRONMENT', 'development')
Environments == {"development", "production"}

\* what verify_with_github_api(token) gives when it is called without
\* await: a coroutine object, whatever the token; it is no string
Coroutine == <<0 - 1>>

\* main_production.py, verify_github_token(authorization) under ENVIRONMENT
\* env: the user_id, or the HTTPException
production_verify_github_token(authorization, env) ==
    IF \/ ~authorization.some
       \/ authorization.val = <<>>
       \/ ~StartsWith(authorization.val, Bearer)
    THEN HTTPException(401, "Missing or invalid Authorization header")
    ELSE Bind(Strip(Replace(authorization.val, Bearer, <<>>)), LAMBDA token :
           IF env = "production"
           THEN [raised |-> FALSE, status_code |-> 0, detail |-> "",
                 user_id |-> Coroutine]
           ELSE IF ~StartsWith(token, GithubBar)
                THEN HTTPException(401, "Invalid token format")
                ELSE Bind(Split(token, Bar), LAMBDA parts :
                       IF Len(parts) # 3
                       THEN HTTPException(401, "Invalid token format")
                       ELSE [raised |-> FALSE, status_code |-> 0,
                             detail |-> "", user_id |-> parts[2]]))

\* the Authorization headers of the clients: none, "", the demo tokens of
\* users "u", "v" and "", and headers that differ from a demo token in one
\* way
AuthorizationHeaders ==
    { None,
      Some(<<>>),
      Some(Bearer \o GithubBar \o <<117, 124, 116>>),                \* Bearer github|u|t
      Some(Bearer \o GithubBar \o <<118, 124, 116>>),                \* Bearer github|v|t
      Some(Bearer \o GithubBar \o <<124, 116>>),                     \* Bearer github||t
      Some(GithubBar \o <<117, 124, 116>>),                          \* github|u|t
      Some(<<66, 97, 115, 105, 99, 32>> \o GithubBar \o <<117, 124, 116>>),  \* Basic github|u|t
      Some(Bearer \o <<103, 105, 116, 108, 97, 98, 124, 117, 124, 116>>),    \* Bearer gitlab|u|t
      Some(Bearer \o GithubBar \o <<117>>),                          \* Bearer github|u
      Some(Bearer \o GithubBar \o <<117, 124, 116, 124, 120>>),      \* Bearer github|u|t|x
      Some(Bearer \o Bearer \o GithubBar \o <<117, 124, 116>>),      \* Bearer Bearer github|u|t
      Some(Bearer \o GithubBar \o <<118>> \o Bearer \o <<124, 116>>) } \* Bearer github|vBearer |t

\* the shortest encrypted_blob agent_ask accepts
MIN_BLOB_LEN == 100

\* the bound on the messages stored
MaxQueue == 2

\* the encrypted_blob values of the clients: "", "short", a text of 99
\* characters, and a base64 text of 100 characters that ends in "=="
Blobs ==
    { <<>>, <<115, 104, 111, 114, 116>>,
      [i \in 1..(MIN_BLOB_LEN - 1) |-> 65],
      [i \in 1..MIN_BLOB_LEN |-> IF i > MIN_BLOB_LEN - 2 THEN 61 ELSE 65] }

\* datetime.utcnow().isoformat() when a request arrives: requests arrive
\* within one tick of the clock
Timestamps == {1}

\* a request: the Authorization header, the encrypted_blob of the body and
\* the user_id of the query string, where the endpoint has them
NoRequest ==
    [endpoint |-> "", authorization |-> None, encrypted_blob |-> <<>>,
     user_id |-> None]

\* a response: the status code and the fields of the JSON body, those the
\* body does not have being "", None or {}
NoResponse ==
    [status_code |-> 0, detail |-> "", status |-> "", message_id |-> None,
     app_public_key |-> None, user_id |-> None, message_count |-> None,
     messages |-> None, total_messages |-> None, users |-> {},
     messages_queued |-> None]

\* the response FastAPI gives for a raised HTTPException
ErrorResponse(status_code, detail) ==
    [NoResponse EXCEPT !.status_code = status_code, !.detail = detail]

\* d[k] = v
Put(d, k, v) == [x \in (DOMAIN d) \cup {k} |-> IF x = k THEN v ELSE d[x]]

\* f"-----BEGIN PUBLIC KEY-----\nDEMO_KEY_FOR_{user_id}\n-----END PUBLIC KEY-----"
DemoPublicKey(user_id) ==
    <<45, 45, 45, 45, 45, 66, 69, 71, 73, 78, 32, 80, 85, 66, 76, 73, 67, 32,
      75, 69, 89, 45, 45, 45, 45, 45, 10, 68, 69, 77, 79, 95, 75, 69, 89, 95,
      70, 79, 82, 95>>
    \o user_id
    \o <<10, 45, 45, 45, 45, 45, 69, 78, 68, 32, 80, 85, 66, 76, 73, 67, 32,
         75, 69, 89, 45, 45, 45, 45, 45>>

\* the decimal digits of n
RECURSIVE Decimal(_)
Decimal(n) == IF n < 10 THEN <<48 + n>> ELSE Decimal(n \div 10) \o <<48 + (n % 10)>>

\* f"{n:06d}"
Format06d(n) ==
    Bind(Decimal(n), LAMBDA ds :
        IF Len(ds) >= 6 THEN ds ELSE [i \in 1..(6 - Len(ds)) |-> 48] \o ds)

\* faulty variant: the id does not number the message
MessageId_Unnumbered(user_id, n) ==
    <<109, 115, 103, 95>> \o user_id \o <<95>> \o Format06d(0)

\* f"msg_{user_id}_{len(MESSAGE_QUEUE):06d}"
MessageId(user_id, n) == <<109, 115, 103, 95>> \o user_id \o <<95>> \o Format06d(n)

\* what the history holds for user_id
SeenOf(user_id) ==
    IF user_id \in DOMAIN seen THEN seen[user_id] ELSE [asks |-> <<>>, key |-> None]

\* USER_DATA after get_public_key has looked user_id up
WithDemoUser(user_id, now) ==
    IF user_id \in DOMAIN USER_DATA
    THEN USER_DATA
    ELSE Put(USER_DATA, user_id,
             [public_key |-> Some(DemoPublicKey(user_id)),
              messages |-> <<>>,
              created_at |-> Some(now)])

\* GetPublicKeyResponse(app_public_key=...): a str makes the 200 response;
\* None fails validation, and the handler for Exception answers 500
GetPublicKeyResponse(app_public_key) ==
    IF app_public_key.some
    THEN [NoResponse EXCEPT !.status_code = 200,
                            !.app_public_key = app_public_key]
    ELSE ErrorResponse(500, "Internal server error")

\* POST /auth/get-public-key
get_public_key ==
    /\ \E authorization \in AuthorizationHeaders, now \in Timestamps :
         \E auth \in {verify_github_token(authorization)} :
             /\ request' = [NoRequest EXCEPT
                               !.endpoint = "POST /auth/get-public-key",
                               !.authorization = authorization]
             /\ IF auth.raised
                THEN /\ response' = ErrorResponse(auth.status_code, auth.detail)
                     /\ UNCHANGED <<USER_DATA, seen>>
                ELSE /\ USER_DATA' = WithDemoUser(auth.user_id, now)
                     /\ response' = GetPublicKeyResponse(
                                        USER_DATA'[auth.user_id].public_key)
                     /\ seen' = Put(seen, auth.user_id,
                                    [SeenOf(auth.user_id) EXCEPT
                                       !.key = IF @.some THEN @
                                               ELSE response'.app_public_key])
    /\ UNCHANGED MESSAGE_QUEUE
    /\ UNCHANGED agent
    /\ UNCHANGED production

\* faulty variant: only an empty blob is turned away
BlobRejected_EmptyOnly(encrypted_blob) == encrypted_blob = <<>>

\* not request.encrypted_blob or len(request.encrypted_blob) < 100
BlobRejected(encrypted_blob) ==
    encrypted_blob = <<>> \/ Len(encrypted_blob) < MIN_BLOB_LEN

\* faulty variant: the blob is validated before the token is verified
AskChecks_BlobFirst(authorization, encrypted_blob) ==
    IF BlobRejected(encrypted_blob)
    THEN HTTPException(400, "encrypted_blob must be valid base64 and at least 100 characters")
    ELSE verify_github_token(authorization)

\* the checks agent_ask makes before it stores anything: the user_id, or
\* the HTTPException raised
AskChecks(authorization, encrypted_blob) ==
    Bind(verify_github_token(authorization), LAMBDA auth :
        IF auth.raised
        THEN auth
        ELSE IF BlobRejected(encrypted_blob)
             THEN HTTPException(400, "encrypted_blob must be valid base64 and at least 100 characters")
             ELSE auth)

\* faulty variant: the relay stores the blob without its "=" padding
NewMessage_Unpadded(message_id, user_id, encrypted_blob, now) ==
    [message_id |-> message_id, user_id |-> user_id,
     encrypted_blob |-> SelectSeq(encrypted_blob, LAMBDA c : c # 61),
     created_at |-> now,
     status |-> "pending",
     blob_size_bytes |-> Len(Utf8Encode(encrypted_blob))]

\* the entry of MESSAGE_QUEUE agent_ask builds
NewMessage(message_id, user_id, encrypted_blob, now) ==
    [message_id |-> message_id, user_id |-> user_id,
     encrypted_blob |-> encrypted_blob, created_at |-> now,
     status |-> "pending",
     blob_size_bytes |-> Len(Utf8Encode(encrypted_blob))]

\* faulty variant: agent_ask writes the user's record anew each time
WithMessage_Reset(user_id, message_id) ==
    Put(USER_DATA, user_id,
        [public_key |-> None,
         messages |-> Append(IF user_id \in DOMAIN USER_DATA
                             THEN USER_DATA[user_id].messages ELSE <<>>,
                             message_id),
         created_at |-> None])

\* USER_DATA after agent_ask has stored message_id for user_id
WithMessage(user_id, message_id) ==
    Bind(IF user_id \in DOMAIN USER_DATA
         THEN USER_DATA
         ELSE Put(USER_DATA, user_id,
                  [public_key |-> None, messages |-> <<>>, created_at |-> None]),
         LAMBDA data : [data EXCEPT ![user_id].messages = Append(@, message_id)])

\* POST /agent/ask
agent_ask ==
    /\ Len(MESSAGE_QUEUE) < MaxQueue
    /\ \E authorization \in AuthorizationHeaders, encrypted_blob \in Blobs,
          now \in Timestamps :
         \E checked \in {AskChecks(authorization, encrypted_blob)} :
         \E message_id \in {MessageId(checked.user_id, Len(MESSAGE_QUEUE))} :
             /\ request' = [NoRequest EXCEPT
                               !.endpoint = "POST /agent/ask",
                               !.authorization = authorization,
                               !.encrypted_blob = encrypted_blob]
             /\ IF checked.raised
                THEN /\ response' = ErrorResponse(checked.status_code,
                                                  checked.detail)
                     /\ UNCHANGED <<USER_DATA, MESSAGE_QUEUE, seen>>
                ELSE /\ MESSAGE_QUEUE' =
                          Append(MESSAGE_QUEUE,
                                 NewMessage(message_id, checked.user_id,
                                            encrypted_blob, now))
                     /\ USER_DATA' = WithMessage(checked.user_id, message_id)
                     /\ response' = [NoResponse EXCEPT
                                       !.status_code = 200,
                                       !.status = "accepted",
                                       !.message_id = Some(message_id)]
                     /\ seen' = Put(seen, checked.user_id,
                                    [SeenOf(checked.user_id) EXCEPT
                                       !.asks = Append(@, response'.message_id.val)])
    /\ UNCHANGED agent
    /\ UNCHANGED production

\* faulty variant: the clear forgets the users
debug_clear_all_QueueOnly ==
    /\ MESSAGE_QUEUE' = <<>>
    /\ request' = [NoRequest EXCEPT !.endpoint = "POST /debug/clear"]
    /\ response' = [NoResponse EXCEPT !.status_code = 200, !.status = "cleared"]
    /\ seen' = <<>>
    /\ UNCHANGED USER_DATA
    /\ UNCHANGED agent
    /\ UNCHANGED production

\* POST /debug/clear
debug_clear_all ==
    /\ USER_DATA' = <<>>
    /\ MESSAGE_QUEUE' = <<>>
    /\ request' = [NoRequest EXCEPT !.endpoint = "POST /debug/clear"]
    /\ response' = [NoResponse EXCEPT !.status_code = 200, !.status = "cleared"]
    /\ seen' = <<>>
    /\ UNCHANGED agent
    /\ UNCHANGED production

\* the user_id values of the query string of GET /debug/messages: none, "",
\* "u", "v" and "w"
QueryUserIds == {None, Some(<<>>), Some(<<117>>), Some(<<118>>), Some(<<119>>)}

\* GET /debug/messages
debug_list_messages ==
    /\ \E user_id \in QueryUserIds :
         /\ request' = [NoRequest EXCEPT !.endpoint = "GET /debug/messages",
                                         !.user_id = user_id]
         /\ response' =
              IF user_id.some /\ user_id.val # <<>>
              THEN IF user_id.val \notin DOMAIN USER_DATA
                   THEN ErrorResponse(404, "User not found")
                   ELSE [NoResponse EXCEPT
                           !.status_code = 200,
                           !.user_id = user_id,
                           !.message_count =
                               Some(Len(USER_DATA[user_id.val].messages)),
                           !.messages = Some(USER_DATA[user_id.val].messages)]
              ELSE [NoResponse EXCEPT
                      !.status_code = 200,
                      !.total_messages = Some(Len(MESSAGE_QUEUE)),
                      !.users = DOMAIN USER_DATA]
    /\ UNCHANGED <<USER_DATA, MESSAGE_QUEUE, seen>>
    /\ UNCHANGED agent
    /\ UNCHANGED production

\* GET /health
health_check ==
    /\ request' = [NoRequest EXCEPT !.endpoint = "GET /health"]
    /\ response' = [NoResponse EXCEPT
                      !.status_code = 200,
                      !.status = "ok",
                      !.messages_queued = Some(Len(MESSAGE_QUEUE))]
    /\ UNCHANGED <<USER_DATA, MESSAGE_QUEUE, seen>>
    /\ UNCHANGED agent
    /\ UNCHANGED production

(***************************************************************************)
(* backend/main_production.py                                              *)
(***************************************************************************)
\* the bound on the accepted asks kept in the history
MaxIssued == 2

\* the bound on the milliseconds counted
MaxClock == 2

\* the longest encrypted_blob main_production accepts
MAX_BLOB_LEN == 1000000

\* the addresses the interpreter gives a coroutine object
Addresses == {1, 2}

\* f"{user_id}": the string itself, or the repr of the coroutine object at
\* address addr, "<coroutine object verify_with_github_api at 0x{addr}>"
Formatted(user_id, addr) ==
    IF user_id = Coroutine
    THEN <<60, 99, 111, 114, 111, 117, 116, 105, 110, 101, 32, 111, 98, 106, 101, 99, 116, 32, 118, 101, 114, 105, 102, 121, 95, 119, 105, 116, 104, 95, 103, 105, 116, 104, 117, 98, 95, 97, 112, 105, 32, 97, 116, 32, 48, 120>>
         \o Decimal(addr) \o <<62>>
    ELSE user_id

\* f"msg_{user_id}_{int(datetime.utcnow().timestamp() * 1000)}"
ProductionMessageId(user_id, addr, ms) ==
    <<109, 115, 103, 95>> \o Formatted(user_id, addr) \o <<95>> \o Decimal(ms)

\* the module is loaded: ENVIRONMENT = os.getenv('ENVIRONMENT', 'development')
production_startup ==
    /\ ~ENVIRONMENT.some
    /\ \E env \in Environments : ENVIRONMENT' = Some(env)
    /\ UNCHANGED <<clock, issued, USER_DATA, MESSAGE_QUEUE, request, response, seen>>
    /\ UNCHANGED agent

\* a millisecond passes
Tick ==
    /\ clock < MaxClock
    /\ clock' = clock + 1
    /\ UNCHANGED <<ENVIRONMENT, issued, USER_DATA, MESSAGE_QUEUE, request,
                   response, seen>>
    /\ UNCHANGED agent

\* main_production.py, POST /auth/get-public-key: the demo key of the caller
production_get_public_key ==
    /\ ENVIRONMENT.some
    /\ \E authorization \in AuthorizationHeaders :
         \E auth \in {production_verify_github_token(authorization,
                                                     ENVIRONMENT.val)} :
         \E addr \in IF auth.user_id = Coroutine THEN Addresses ELSE {1} :
             /\ request' = [NoRequest EXCEPT
                               !.endpoint = "POST /auth/get-public-key",
                               !.authorization = authorization]
             /\ response' =
                  IF auth.raised
                  THEN ErrorResponse(auth.status_code, auth.detail)
                  ELSE [NoResponse EXCEPT
                          !.status_code = 200,
                          !.app_public_key =
                              Some(DemoPublicKey(Formatted(auth.user_id, addr)))]
    /\ UNCHANGED <<ENVIRONMENT, clock, issued, USER_DATA, MESSAGE_QUEUE, seen>>
    /\ UNCHANGED agent

\* main_production.py, agent_ask up to the message id: the HTTPException
\* of the first check that fails, or the user_id
ProductionAskChecks(authorization, encrypted_blob, env) ==
    Bind(production_verify_github_token(authorization, env), LAMBDA auth :
        IF auth.raised THEN auth
        ELSE IF Len(encrypted_blob) < MIN_BLOB_LEN
        THEN HTTPException(400, "Encrypted blob is too small")
        ELSE IF Len(encrypted_blob) > MAX_BLOB_LEN
        THEN HTTPException(400, "Encrypted blob is too large")
        ELSE auth)

\* main_production.py, POST /agent/ask: nothing is stored, the id is
\* returned
production_agent_ask ==
    /\ ENVIRONMENT.some
    /\ Len(issued) < MaxIssued
    /\ \E authorization \in AuthorizationHeaders, encrypted_blob \in Blobs :
         \E checked \in {ProductionAskChecks(authorization, encrypted_blob,
                                              ENVIRONMENT.val)} :
         \E addr \in IF checked.user_id = Coroutine THEN Addresses ELSE {1} :
         \E message_id \in {ProductionMessageId(checked.user_id, addr, clock)} :
             /\ request' = [NoRequest EXCEPT
                               !.endpoint = "POST /agent/ask",
                               !.authorization = authorization,
                               !.encrypted_blob = encrypted_blob]
             /\ IF checked.raised
                THEN /\ response' = ErrorResponse(checked.status_code,
                                                  checked.detail)
                     /\ UNCHANGED issued
                ELSE /\ response' = [NoResponse EXCEPT
                                       !.status_code = 200,
                                       !.status = "accepted",
                                       !.message_id = Some(message_id)]
                     /\ issued' = Append(issued,
                                         [user_id |-> Formatted(checked.user_id, addr),
                                          message_id |-> message_id,
                                          at |-> clock])
    /\ UNCHANGED <<ENVIRONMENT, clock, USER_DATA, MESSAGE_QUEUE, seen>>
    /\ UNCHANGED agent

(***************************************************************************)
(* json.dumps and json.loads                                               *)
(***************************************************************************)
\* a JSON value of the work order: a string or an object, the object as its
\* (key, value) pairs in the order of the text
JsonStr(text) == [kind |-> "str", str |-> text, members |-> <<>>]

JsonObj(members) == [kind |-> "obj", str |-> <<>>, members |-> members]

\* '{0:04x}'.format(n)
HexDigit(v) == IF v < 10 THEN 48 + v ELSE 97 + (v - 10)

Hex4(n) ==
    <<HexDigit(n \div 4096), HexDigit((n \div 256) % 16),
      HexDigit((n \div 16) % 16), HexDigit(n % 16)>>

\* json.encoder.py_encode_basestring_ascii for one character: the short
\* escapes, \uXXXX for every other character outside ' '..'~', a surrogate
\* pair above U+FFFF
JsonEscapeChar(c) ==
    CASE c = 34 -> <<92, 34>>
      [] c = 92 -> <<92, 92>>
      [] c = 10 -> <<92, 110>>
      [] c = 13 -> <<92, 114>>
      [] c = 9  -> <<92, 116>>
      [] c = 12 -> <<92, 102>>
      [] c = 8  -> <<92, 98>>
      [] c >= 32 /\ c <= 126 /\ c # 34 /\ c # 92 -> <<c>>
      [] c > 65535 ->
           <<92, 117>> \o Hex4(55296 + ((c - 65536) \div 1024))
           \o <<92, 117>> \o Hex4(56320 + ((c - 65536) % 1024))
      [] OTHER -> <<92, 117>> \o Hex4(c)

RECURSIVE JsonEscapeRange(_, _, _)
\* the escapes of text[lo..hi], one after the other
JsonEscapeRange(text, lo, hi) ==
    IF lo > hi THEN <<>>
    ELSE IF lo = hi THEN JsonEscapeChar(text[lo])
    ELSE JsonEscapeRange(text, lo, (lo + hi) \div 2)
         \o JsonEscapeRange(text, ((lo + hi) \div 2) + 1, hi)

JsonEscape(text) == JsonEscapeRange(text, 1, Len(text))

\* a string of the text json.dumps writes
JsonQuote(text) == <<34>> \o JsonEscape(text) \o <<34>>

\* n spaces
Indent(n) == [i \in 1..n |-> 32]

RECURSIVE JsonDump(_, _)
RECURSIVE JsonDumpMembers(_, _, _)
\* json.dumps(value, indent=2) at nesting depth `depth`
JsonDump(value, depth) ==
    IF value.kind = "str" THEN JsonQuote(value.str)
    ELSE IF value.members = <<>> THEN <<123, 125>>
    ELSE <<123, 10>> \o JsonDumpMembers(value.members, 1, depth + 1)
         \o <<10>> \o Indent(2 * depth) \o <<125>>

\* the members from the i-th on, one per line, separated by ","
JsonDumpMembers(members, i, depth) ==
    Indent(2 * depth) \o JsonQuote(members[i][1]) \o <<58, 32>>
    \o JsonDump(members[i][2], depth)
    \o (IF i = Len(members) THEN <<>>
        ELSE <<44, 10>> \o JsonDumpMembers(members, i + 1, depth))

json_dumps(value) == JsonDump(value, 0)

\* json.decoder: the whitespace between tokens
JsonWhitespace == {32, 9, 10, 13}

RECURSIVE SkipWs(_, _)
SkipWs(text, i) ==
    IF i <= Len(text) /\ text[i] \in JsonWhitespace THEN SkipWs(text, i + 1) ELSE i

HexVal(c) ==
    IF c >= 48 /\ c <= 57 THEN c - 48
    ELSE IF c >= 97 /\ c <= 102 THEN c - 87
    ELSE IF c >= 65 /\ c <= 70 THEN c - 55
    ELSE 0 - 1

\* the four hexadecimal digits at text[i..i+3], or -1
Hex4Val(text, i) ==
    IF i + 3 > Len(text) \/ \E k \in 0..3 : HexVal(text[i + k]) < 0 THEN 0 - 1
    ELSE HexVal(text[i]) * 4096 + HexVal(text[i + 1]) * 256
         + HexVal(text[i + 2]) * 16 + HexVal(text[i + 3])

\* the character a short escape stands for, or -1
Unescaped(e) ==
    CASE e = 34 -> 34 [] e = 92 -> 92 [] e = 47 -> 47 [] e = 98 -> 8
      [] e = 102 -> 12 [] e = 110 -> 10 [] e = 114 -> 13 [] e = 116 -> 9
      [] OTHER -> 0 - 1

JsonError == [ok |-> FALSE, val |-> JsonStr(<<>>), next |-> 0]

\* json.decoder.py_scanstring in strict mode, from text[i], the character
\* after the opening quote: the string and the position after its closing
\* quote; JSONDecodeError for an unterminated string, a control character
\* or a bad escape.  The scanner reads one character or escape after the
\* other; written without recursion: a backslash starts an escape when an
\* even number of backslashes stands directly before it, and an escape
\* covers the character after its backslash, and the four after a "u".
ScanString(text, i) ==
    LET n == Len(text)
        Run(p) == CHOOSE r \in 0..(p - i) :
                     /\ \A k \in 1..r : text[p - k] = 92
                     /\ (p - r = i \/ text[p - r - 1] # 92)
        Escaping(p) == text[p] = 92 /\ Run(p) % 2 = 0
        closes == {p \in i..n : text[p] = 34 /\ Run(p) % 2 = 0}
        close == CHOOSE p \in closes : \A q \in closes : p <= q
        Covered(p) ==
            \/ p - 1 >= i /\ Escaping(p - 1)
            \/ \E k \in 2..5 :
                  p - k >= i /\ Escaping(p - k) /\ text[p - k + 1] = 117
        IsUnit(p) == ~Covered(p)
        units == SelectSeq([k \in 1..(close - i) |-> i + k - 1], IsUnit)
        IsU(p) == text[p] = 92 /\ p + 1 <= n /\ text[p + 1] = 117
        UnitOk(p) ==
            /\ text[p] >= 32
            /\ text[p] = 92 =>
                 /\ p + 1 <= n
                 /\ IF text[p + 1] = 117 THEN Hex4Val(text, p + 2) >= 0
                    ELSE Unescaped(text[p + 1]) >= 0
        High(p) == /\ IsU(p)
                   /\ Hex4Val(text, p + 2) >= 55296
                   /\ Hex4Val(text, p + 2) <= 56319
        Low(p) == /\ p <= n
                  /\ IsU(p)
                  /\ Hex4Val(text, p + 2) >= 56320
                  /\ Hex4Val(text, p + 2) <= 57343
        \* the second half of a surrogate pair
        Absorbed(p) == Low(p) /\ p - 6 >= i /\ IsUnit(p - 6) /\ High(p - 6)
        IsChar(p) == ~Absorbed(p)
        Value(p) ==
            IF text[p] # 92 THEN text[p]
            ELSE IF text[p + 1] # 117 THEN Unescaped(text[p + 1])
            ELSE IF High(p) /\ Low(p + 6)
            THEN 65536 + (Hex4Val(text, p + 2) - 55296) * 1024
                 + (Hex4Val(text, p + 8) - 56320)
            ELSE Hex4Val(text, p + 2)
        chars == SelectSeq(units, IsChar)
    IN  IF closes = {} THEN JsonError
        ELSE IF \E k \in 1..Len(units) : ~UnitOk(units[k]) THEN JsonError
        ELSE [ok |-> TRUE,
              val |-> JsonStr([k \in 1..Len(chars) |-> Value(chars[k])]),
              next |-> close + 1]

RECURSIVE ParseValue(_, _)
RECURSIVE ParseMembers(_, _, _)
\* json.scanner: the value that starts at text[i] and the position after
\* it.  The texts main() parses hold strings and objects; a text that holds
\* another kind of value is reported as not parsed.
ParseValue(text, i) ==
    IF i > Len(text) THEN JsonError
    ELSE IF text[i] = 34 THEN ScanString(text, i + 1)
    ELSE IF text[i] # 123 THEN JsonError
    ELSE Bind(SkipWs(text, i + 1), LAMBDA j :
           IF j <= Len(text) /\ text[j] = 125
           THEN [ok |-> TRUE, val |-> JsonObj(<<>>), next |-> j + 1]
           ELSE ParseMembers(text, j, <<>>))

\* json.decoder.JSONObject: "key" : value pairs separated by ",", up to "}"
ParseMembers(text, i, acc) ==
    IF i > Len(text) \/ text[i] # 34 THEN JsonError
    ELSE Bind(ScanString(text, i + 1), LAMBDA key :
      IF ~key.ok THEN JsonError
      ELSE Bind(SkipWs(text, key.next), LAMBDA colon :
        IF colon > Len(text) \/ text[colon] # 58 THEN JsonError
        ELSE Bind(ParseValue(text, SkipWs(text, colon + 1)), LAMBDA v :
          IF ~v.ok THEN JsonError
          ELSE Bind(SkipWs(text, v.next), LAMBDA end :
            IF end > Len(text) THEN JsonError
            ELSE IF text[end] = 125
            THEN [ok |-> TRUE,
                  val |-> JsonObj(Append(acc, <<key.val.str, v.val>>)),
                  next |-> end + 1]
            ELSE IF text[end] # 44 THEN JsonError
            ELSE ParseMembers(text, SkipWs(text, end + 1),
                              Append(acc, <<key.val.str, v.val>>))))))

\* json.loads(text): one value with whitespace around it, else
\* JSONDecodeError
json_loads(text) ==
    Bind(ParseValue(text, SkipWs(text, 1)), LAMBDA v :
        IF v.ok /\ SkipWs(text, v.next) = Len(text) + 1
        THEN [ok |-> TRUE, val |-> v.val]
        ELSE [ok |-> FALSE, val |-> JsonStr(<<>>)])

\* the positions of key in the members of an object
MembersNamed(value, key) ==
    {i \in 1..Len(value.members) : value.members[i][1] = key}

\* value[key] of a dict made by json.loads: of the members named key the
\* last one counts
GetItem(value, key) ==
    value.members[CHOOSE i \in MembersNamed(value, key) :
                     \A j \in MembersNamed(value, key) : j <= i][2]

(***************************************************************************)
(* phase-0/python-agent/agent.py, main(), statement by statement           *)
(***************************************************************************)
\* the PEM armour of a public key
PemBegin == <<45, 45, 45, 45, 45, 66, 69, 71, 73, 78, 32, 80, 85, 66, 76, 73, 67, 32, 75, 69, 89, 45, 45, 45, 45, 45>>

PemEnd == <<45, 45, 45, 45, 45, 69, 78, 68, 32, 80, 85, 66, 76, 73, 67, 32, 75, 69, 89, 45, 45, 45, 45, 45>>

\* the DER bytes of the public half of a key, which tell the key: they
\* stand for the SubjectPublicKeyInfo of its modulus
KeyDer(key) == <<key.id, key.bits \div 256, key.bits % 256>>

\* CryptoUtils.get_public_key_pem(private_key)
get_public_key_pem(key) ==
    PemBegin \o <<10>> \o b64encode(KeyDer(key)) \o <<10>> \o PemEnd \o <<10>>

\* what serialization.load_pem_public_key finds in a text: the armour
\* with the base64 of the DER bytes between, or no PEM at all
ParsePem(text) ==
    LET head == PemBegin \o <<10>>
        foot == <<10>> \o PemEnd \o <<10>>
        garbage == [form |-> "garbage", alg |-> "none", bits |-> 0,
                    half |-> "none", id |-> 0]
    IN  IF \/ Len(text) < Len(head) + Len(foot)
           \/ ~StartsWith(text, head)
           \/ SubSeq(text, Len(text) - Len(foot) + 1, Len(text)) # foot
        THEN garbage
        ELSE Bind(b64decode(SubSeq(text, Len(head) + 1, Len(text) - Len(foot))),
                  LAMBDA der :
               IF ~der.ok \/ Len(der.bytes) # 3 THEN garbage
               ELSE [form |-> "pem", alg |-> "rsa",
                     bits |-> der.bytes[2] * 256 + der.bytes[3],
                     half |-> "public", id |-> der.bytes[1]])

\* the keys of the work order
Key ==
    [topic |-> <<116, 111, 112, 105, 99>>,
     prompt |-> <<112, 114, 111, 109, 112, 116>>,
     reply_instructions |-> <<114, 101, 112, 108, 121, 95, 105, 110, 115, 116, 114, 117, 99, 116, 105, 111, 110, 115>>,
     destination_url |-> <<100, 101, 115, 116, 105, 110, 97, 116, 105, 111, 110, 95, 117, 114, 108>>,
     http_method |-> <<104, 116, 116, 112, 95, 109, 101, 116, 104, 111, 100>>,
     reply_encryption_key |-> <<114, 101, 112, 108, 121, 95, 101, 110, 99, 114, 121, 112, 116, 105, 111, 110, 95, 107, 101, 121>>]

\* "Hello from React Native!"
HelloFromReactNative == <<72, 101, 108, 108, 111, 32, 102, 114, 111, 109, 32, 82, 101, 97, 99, 116, 32, 78, 97, 116, 105, 118, 101, 33>>

\* the prompt of the work order: "hello world" as in main(), the empty
\* prompt, and a prompt of characters that json.dumps escapes: a quote, a
\* backslash, a line feed, U+00E9 and U+1F600
Prompts == {HelloWorld, <<>>, <<34, 92, 10, 233, 128512>>}

\* the reply of the app: "Hello from React Native!" as in main(), the
\* empty reply and "é"
Replies == {HelloFromReactNative, <<>>, <<233>>}

\* the work_order dict of main()
WorkOrder(prompt, temp_public_key_pem) ==
    JsonObj(<<
      <<Key.topic, JsonStr(<<80, 104, 97, 115, 101, 32, 48, 32, 83, 112, 105, 107, 101>>)>>,
      <<Key.prompt, JsonStr(prompt)>>,
      <<Key.reply_instructions, JsonObj(<<
          <<Key.destination_url,
            JsonStr(<<104, 116, 116, 112, 115, 58, 47, 47, 108, 111, 99, 97, 108, 104, 111, 115, 116, 58, 56, 48, 48, 48, 47, 114, 101, 112, 108, 121>>)>>,
          <<Key.http_method, JsonStr(<<80, 79, 83, 84>>)>>,
          <<Key.reply_encryption_key, JsonStr(temp_public_key_pem)>> >>)>> >>)

\* main() before its first statement
NoMain ==
    [pc |-> "generate_app_key", err |-> "",
     app_private_key |-> 0, app_public_key_pem |-> <<>>,
     temp_private_key |-> 0, temp_public_key_pem |-> <<>>,
     prompt |-> <<>>, work_order_json |-> <<>>, app_public_key |-> 0,
     encrypted_work_order |-> <<>>, decrypted_work_order |-> <<>>,
     decrypted_json |-> JsonStr(<<>>), reply_text |-> <<>>,
     reply_encryption_key_pem |-> <<>>, temp_public_key |-> 0,
     encrypted_reply |-> <<>>, decrypted_reply |-> <<>>]

\* what main() leaves alone when it is not in a CryptoUtils call
MainFrame ==
    <<aeskeys, rng, sealed, wire, opened, peer, USER_DATA, MESSAGE_QUEUE,
      request, response, seen, ENVIRONMENT, clock, issued>>

\* app_private_key = CryptoUtils.generate_key_pair();
\* app_public_key_pem = CryptoUtils.get_public_key_pem(app_private_key)
MainGenerateAppKey ==
    /\ main.pc = "generate_app_key"
    /\ keyring' = Append(keyring, NewKey(Len(keyring) + 1, KEY_SIZE, "generated"))
    /\ main' = [main EXCEPT
                  !.app_private_key = Len(keyring'),
                  !.app_public_key_pem =
                      get_public_key_pem(keyring'[Len(keyring')]),
                  !.pc = "generate_temp_key"]
    /\ UNCHANGED call
    /\ UNCHANGED MainFrame

\* temp_private_key = CryptoUtils.generate_key_pair();
\* temp_public_key_pem = CryptoUtils.get_public_key_pem(temp_private_key)
MainGenerateTempKey ==
    /\ main.pc = "generate_temp_key"
    /\ keyring' = Append(keyring, NewKey(Len(keyring) + 1, KEY_SIZE, "generated"))
    /\ main' = [main EXCEPT
                  !.temp_private_key = Len(keyring'),
                  !.temp_public_key_pem =
                      get_public_key_pem(keyring'[Len(keyring')]),
                  !.pc = "build_work_order"]
    /\ UNCHANGED call
    /\ UNCHANGED MainFrame

\* work_order = {...}; work_order_json = json.dumps(work_order, indent=2)
MainBuildWorkOrder ==
    /\ main.pc = "build_work_order"
    /\ \E prompt \in Prompts :
         main' = [main EXCEPT
                    !.prompt = prompt,
                    !.work_order_json =
                        json_dumps(WorkOrder(prompt, main.temp_public_key_pem)),
                    !.pc = "load_app_public_key"]
    /\ UNCHANGED <<keyring, call>>
    /\ UNCHANGED MainFrame

\* CryptoUtils.load_public_key_from_pem(pem) called by main(): the key
\* object is added to the key ring and its index kept in the local `local`;
\* a ValueError of the library ends main()
MainLoadPublicKey(pem, local, next) ==
    \E r \in {load_pem(ParsePem(pem), "public")} :
        IF r.ok
        THEN /\ keyring' = Append(keyring,
                    [id |-> ParsePem(pem).id, bits |-> r.bits,
                     origin |-> "loaded_public", alg |-> r.alg])
             /\ main' = [main EXCEPT ![local] = Len(keyring) + 1, !.pc = next]
        ELSE /\ main' = [main EXCEPT !.pc = "raised", !.err = r.err]
             /\ UNCHANGED keyring

\* app_public_key = CryptoUtils.load_public_key_from_pem(app_public_key_pem)
MainLoadAppPublicKey ==
    /\ main.pc = "load_app_public_key"
    /\ MainLoadPublicKey(main.app_public_key_pem, "app_public_key",
                         "encrypt_work_order")
    /\ UNCHANGED call
    /\ UNCHANGED MainFrame

\* main() enters CryptoUtils.encrypt_rsa / decrypt_rsa
MainCall(op, first, text, k, next) ==
    /\ call.op = "idle"
    /\ call' = NewCall(op, first, text, k, rng)
    /\ main' = [main EXCEPT !.pc = next]
    /\ UNCHANGED keyring
    /\ UNCHANGED MainFrame

\* the call main() made has ended: its value is assigned to the local
\* `local`, its exception ends main()
MainReturn(local, next) ==
    /\ call.status \in {"returned", "raised"}
    /\ main' = IF call.status = "returned"
               THEN [main EXCEPT ![local] = call.value, !.pc = next]
               ELSE [main EXCEPT !.pc = "raised", !.err = call.err]
    /\ call' = NoCall
    /\ IF call.status = "returned" /\ call.op = "encrypt_rsa"
       THEN /\ sealed' = Append(sealed, SealRecord(call, rng))
            /\ wire' = [text |-> call.value, src |-> Len(sealed) + 1,
                        mod |-> "none"]
       ELSE UNCHANGED <<sealed, wire>>
    /\ UNCHANGED <<keyring, aeskeys, rng, opened, peer>>
    /\ UNCHANGED relay

\* encrypted_work_order = CryptoUtils.encrypt_rsa(work_order_json, app_public_key)
MainEncryptWorkOrder ==
    \/ /\ main.pc = "encrypt_work_order"
       /\ MainCall("encrypt_rsa", "generate_aes_key", main.work_order_json,
                   main.app_public_key, "encrypting_work_order")
    \/ /\ main.pc = "encrypting_work_order"
       /\ MainReturn("encrypted_work_order", "decrypt_work_order")

\* decrypted_work_order = CryptoUtils.decrypt_rsa(encrypted_work_order, app_private_key)
MainDecryptWorkOrder ==
    \/ /\ main.pc = "decrypt_work_order"
       /\ MainCall("decrypt_rsa", "b64decode", main.encrypted_work_order,
                   main.app_private_key, "decrypting_work_order")
    \/ /\ main.pc = "decrypting_work_order"
       /\ MainReturn("decrypted_work_order", "json_loads")

\* decrypted_json = json.loads(decrypted_work_order)
MainJsonLoads ==
    /\ main.pc = "json_loads"
    /\ \E r \in {json_loads(main.decrypted_work_order)} :
         main' = IF r.ok
                 THEN [main EXCEPT !.decrypted_json = r.val,
                                   !.pc = "read_reply_instructions"]
                 ELSE [main EXCEPT !.pc = "raised", !.err = "JSONDecodeError"]
    /\ UNCHANGED <<keyring, call>>
    /\ UNCHANGED MainFrame

\* faulty variant: the app takes the key the work order came under
ReplyEncryptionKeyPem_App(decrypted_json) == main.app_public_key_pem

\* decrypted_json['reply_instructions']['reply_encryption_key']
ReplyEncryptionKeyPem(decrypted_json) ==
    GetItem(GetItem(decrypted_json, Key.reply_instructions),
            Key.reply_encryption_key).str

\* reply_text = "Hello from React Native!";
\* reply_encryption_key_pem = reply_instructions['reply_encryption_key']
MainReadReplyInstructions ==
    /\ main.pc = "read_reply_instructions"
    /\ \E reply_text \in Replies :
         main' = [main EXCEPT
                    !.reply_text = reply_text,
                    !.reply_encryption_key_pem =
                        ReplyEncryptionKeyPem(main.decrypted_json),
                    !.pc = "load_temp_public_key"]
    /\ UNCHANGED <<keyring, call>>
    /\ UNCHANGED MainFrame

\* temp_public_key = CryptoUtils.load_public_key_from_pem(reply_encryption_key_pem)
MainLoadTempPublicKey ==
    /\ main.pc = "load_temp_public_key"
    /\ MainLoadPublicKey(main.reply_encryption_key_pem, "temp_public_key",
                         "encrypt_reply")
    /\ UNCHANGED call
    /\ UNCHANGED MainFrame

\* encrypted_reply = CryptoUtils.encrypt_rsa(reply_text, temp_public_key)
MainEncryptReply ==
    \/ /\ main.pc = "encrypt_reply"
       /\ MainCall("encrypt_rsa", "generate_aes_key", main.reply_text,
                   main.temp_public_key, "encrypting_reply")
    \/ /\ main.pc = "encrypting_reply"
       /\ MainReturn("encrypted_reply", "decrypt_reply")

\* decrypted_reply = CryptoUtils.decrypt_rsa(encrypted_reply, temp_private_key)
MainDecryptReply ==
    \/ /\ main.pc = "decrypt_reply"
       /\ MainCall("decrypt_rsa", "b64decode", main.encrypted_reply,
                   main.temp_private_key, "decrypting_reply")
    \/ /\ main.pc = "decrypting_reply"
       /\ MainReturn("decrypted_reply", "done")

(***************************************************************************)
(* Specifications                                                          *)
(***************************************************************************)
Init ==
    /\ keyring = <<>>
    /\ aeskeys = <<>>
    /\ rng = 0
    /\ call = NoCall
    /\ sealed = <<>>
    /\ wire = NoWire
    /\ opened = <<>>
    /\ peer = NoCall
    /\ USER_DATA = <<>>
    /\ MESSAGE_QUEUE = <<>>
    /\ request = NoRequest
    /\ response = NoResponse
    /\ seen = <<>>
    /\ ENVIRONMENT = None
    /\ clock = 0
    /\ issued = <<>>
    /\ main = NoMain

\* the loader returned an RSA key
RsaKeyLoaded ==
    /\ Len(keyring') = Len(keyring) + 1
    /\ keyring'[Len(keyring')].alg = "rsa"

\* honest use: keys are made or loaded, texts are sealed and opened.  The
\* caller's own keys are generated before foreign keys are loaded: a key
\* ring is told from another by its keys, not by the order they came in.
\* The PEMs loaded are those of RSA keys.
Next ==
    \/ ((\A k \in 1..Len(keyring) : keyring[k].origin = "generated") /\ generate_key_pair)
    \/ (load_private_key_from_pem /\ RsaKeyLoaded)
    \/ (Len(sealed) < MaxSeals /\ StartEncryptRsa)
    \/ EncryptRsaStep
    \/ StartDecryptRsa
    \/ DecryptRsaStep
    \/ Finish

Spec == Init /\ [][Next]_vars

\* one sealed text crosses a channel whose adversary changes or cuts it; the
\* two sides share RSA key pairs (encrypt_rsa / decrypt_rsa) or raw AES keys
\* (encrypt_aes / decrypt_aes)
NextWire ==
    \/ (aeskeys = <<>> /\ generate_key_pair)
    \/ (keyring = <<>> /\ GenerateAesKey)
    \/ (sealed = <<>> /\ StartEncryptRsa)
    \/ EncryptRsaStep
    \/ (sealed = <<>> /\ StartEncryptAes)
    \/ EncryptAesStep
    \/ Tamper
    \/ Truncate
    \/ Garble
    \/ StartDecryptRsa
    \/ DecryptRsaStep
    \/ StartDecryptAes
    \/ DecryptAesStep
    \/ Finish

SpecWire == Init /\ [][NextWire]_vars

\* keys come from PEM text of any kind; one encrypt_rsa call is made with
\* one of them
NextImport ==
    \/ load_private_key_from_pem
    \/ load_public_key_from_pem
    \/ (rng = 0 /\ StartEncryptRsa)
    \/ EncryptRsaStep
    \/ Finish

SpecImport == Init /\ [][NextImport]_vars

\* one key pair; envelopes are sealed, and opened again and again, in any
\* order
NextRepeat ==
    \/ (keyring = <<>> /\ generate_key_pair)
    \/ (keyring = <<>> /\ load_private_key_from_pem /\ RsaKeyLoaded)
    \/ (Len(sealed) < MaxSeals /\ StartEncryptRsa)
    \/ EncryptRsaStep
    \/ (call.op = "encrypt_rsa" /\ Finish)
    \/ Resend
    \/ (Len(opened) < MaxOpens /\ StartDecryptRsa)
    \/ DecryptRsaStep
    \/ FinishOpen

SpecRepeat == Init /\ [][NextRepeat]_vars

\* two threads seal and open with one generated key pair, their statements
\* interleaved in every order; encrypt_rsa calls start while no envelope
\* is finished, so each thread seals at most once: the first thread seals
\* "hello world", the second thread a non-empty plaintext
NextPar ==
    \/ (keyring = <<>> /\ generate_key_pair)
    \/ (sealed = <<>> /\ StartEncryptRsa /\ call'.arg_text = HelloWorld)
    \/ EncryptRsaStep
    \/ StartDecryptRsa
    \/ DecryptRsaStep
    \/ Finish
    \/ (sealed = <<>> /\ PeerStartEncryptRsa /\ peer'.arg_text # <<>>)
    \/ PeerEncryptRsaStep
    \/ PeerStartDecryptRsa
    \/ PeerDecryptRsaStep
    \/ PeerFinish

SpecPar == Init /\ [][NextPar]_vars

\* clients of the relay send requests in any order
NextRelay ==
    \/ get_public_key
    \/ agent_ask
    \/ debug_clear_all
    \/ debug_list_messages
    \/ health_check

SpecRelay == Init /\ [][NextRelay]_vars

\* main_production is started in either environment; its clients send
\* requests in any order while the clock runs
NextProduction ==
    \/ production_startup
    \/ Tick
    \/ production_get_public_key
    \/ production_agent_ask

SpecProduction == Init /\ [][NextProduction]_vars

\* main() of the Phase 0 agent runs from its first statement to its last,
\* with one of the prompts and one of the replies
NextExchange ==
    \/ MainGenerateAppKey
    \/ MainGenerateTempKey
    \/ MainBuildWorkOrder
    \/ MainLoadAppPublicKey
    \/ MainEncryptWorkOrder
    \/ (main.pc = "encrypting_work_order" /\ EncryptRsaStep)
    \/ MainDecryptWorkOrder
    \/ (main.pc = "decrypting_work_order" /\ DecryptRsaStep)
    \/ MainJsonLoads
    \/ MainReadReplyInstructions
    \/ MainLoadTempPublicKey
    \/ MainEncryptReply
    \/ (main.pc = "encrypting_reply" /\ EncryptRsaStep)
    \/ MainDecryptReply
    \/ (main.pc = "decrypting_reply" /\ DecryptRsaStep)

SpecExchange == Init /\ [][NextExchange]_vars

(***************************************************************************)
(* Vocabulary of the properties                                            *)
(***************************************************************************)
Ended == call.status \in {"returned", "raised"}

Failed == call.status = "raised" /\ call.value = <<>>

IsPrefix(a, b) == Len(a) <= Len(b) /\ a = SubSeq(b, 1, Len(a))

\* the library operations of decrypt_rsa in the order of its statements
OpenOrder ==
    <<"b64decode", "rsa_decrypt", "aes_gcm_init", "gcm_update", "gcm_finalize",
      "utf8_decode">>

SymmetricOps == {"aes_gcm_init", "gcm_update", "gcm_finalize"}

CryptoOps == SymmetricOps \cup {"rsa_decrypt"}

Ops(c) == {c.log[i] : i \in 1..Len(c.log)}

\* a and b are equally long and differ in exactly one position
OneByteOff(a, b) ==
    /\ Len(a) = Len(b)
    /\ Cardinality({p \in 1..Len(a) : a[p] # b[p]}) = 1

\* the sealed records of encrypt_rsa
RsaSeals == {i \in 1..Len(sealed) : sealed[i].op = "encrypt_rsa"}

Generated(k) == keyring[k].origin = "generated"

\* decrypt_rsa run to its end on (text, key k): the statements of
\* decrypt_rsa_step applied until the call returns or raises
RECURSIVE RunDecryptRsa(_, _)
RunDecryptRsa(c, key) ==
    IF c.status # "running" THEN c ELSE RunDecryptRsa(decrypt_rsa_step(c, key), key)

OpensTo(text, k, pt) ==
    \E r \in {RunDecryptRsa(NewCall("decrypt_rsa", "b64decode", text, k, 0),
                            keyring[k])} :
        r.status = "returned" /\ r.value = pt

(***************************************************************************)
(* C1  Round trip: a decrypt_rsa call given, unchanged, the text that      *)
(* encrypt_rsa returned for plaintext p under a key pair made by           *)
(* generate_key_pair, and that key pair's private key, returns exactly p   *)
(* (the empty string included).  Plaintexts are strings of Unicode scalar  *)
(* values.                                                                 *)
(***************************************************************************)
C1_RoundTrip ==
    (call.op = "decrypt_rsa" /\ Ended) =>
        \A i \in RsaSeals :
            (/\ sealed[i].text = call.arg_text
             /\ sealed[i].key = call.arg_key
             /\ Generated(call.arg_key))
            => (call.status = "returned" /\ call.value = sealed[i].plaintext)

\* the empty string has been sealed, opened with the matching key, and the
\* open call has ended
C1_Witness ==
    /\ call.op = "decrypt_rsa"
    /\ Ended
    /\ \E i \in RsaSeals :
         /\ sealed[i].text = call.arg_text
         /\ sealed[i].key = call.arg_key
         /\ Generated(call.arg_key)
         /\ sealed[i].plaintext = <<>>
         /\ Len(sealed[i].ciphertext) = 0

(***************************************************************************)
(* C2  Tamper detection: a decrypt_rsa call whose decoded input differs    *)
(* from a sealed envelope in exactly one byte (whichever region the byte   *)
(* is in, whatever key is used) ends by raising and returns nothing.       *)
(***************************************************************************)
C2_TamperDetected ==
    (call.op = "decrypt_rsa" /\ Ended) =>
        \A i \in RsaSeals :
            OneByteOff(sealed[i].data, call.encrypted_data) => Failed

\* a byte behind the wrapped key was changed, the recipient's own key
\* unwrapped the symmetric key, and the tag check ended the call
C2_Witness ==
    /\ call.op = "decrypt_rsa"
    /\ call.status = "raised"
    /\ call.err = "InvalidTag"
    /\ \E i \in RsaSeals :
         /\ OneByteOff(sealed[i].data, call.encrypted_data)
         /\ sealed[i].key = call.arg_key
         /\ sealed[i].ciphertext # call.ciphertext

(***************************************************************************)
(* C3  Length floor: a decrypt_rsa call whose decoded input is shorter     *)
(* than WRAP_LEN + 12 + 16 bytes ends with EnvelopeTooShortError and has   *)
(* attempted no RSA or AES-GCM operation.                                  *)
(***************************************************************************)
MinEnvelopeLen == WRAP_SLICE + IV_LEN + TAG_LEN

\* base64.b64decode itself raised: there is no decoded input
DecodeFailed ==
    /\ call.status = "raised"
    /\ call.log = <<"b64decode">>
    /\ call.err \in {"binascii.Error", "ValueError"}

C3_LengthFloor ==
    (/\ call.op = "decrypt_rsa"
     /\ Ended
     /\ ~DecodeFailed
     /\ Len(call.encrypted_data) < MinEnvelopeLen)
    => (/\ call.status = "raised"
        /\ call.err = "EnvelopeTooShortError"
        /\ Ops(call) \cap CryptoOps = {})

(***************************************************************************)
(* C4  Wrong key rejection: a decrypt_rsa call given the text sealed under *)
(* one key pair and the private key of another key pair ends by raising    *)
(* and returns nothing.                                                    *)
(***************************************************************************)
C4_WrongKeyRejected ==
    (call.op = "decrypt_rsa" /\ Ended) =>
        \A i \in RsaSeals :
            (sealed[i].text = call.arg_text /\ sealed[i].key # call.arg_key)
            => Failed

\* two generated key pairs; the text sealed under one was given to
\* decrypt_rsa with the other, and the call has ended
C4_Witness ==
    /\ call.op = "decrypt_rsa"
    /\ Ended
    /\ \E i \in RsaSeals :
         /\ sealed[i].text = call.arg_text
         /\ sealed[i].key # call.arg_key
         /\ Generated(sealed[i].key)
         /\ Generated(call.arg_key)

(***************************************************************************)
(* C5  Authenticate before release: in decrypt_rsa and decrypt_aes a value *)
(* is returned, and `plaintext` is assigned, only after decryptor.finalize *)
(* has run and the tag verifies; a call that reached the cipher with a tag *)
(* that does not verify ends by raising, with nothing returned and no      *)
(* plaintext assigned.                                                     *)
(***************************************************************************)
TagVerifies == GcmVerify(call.aes_key, call.iv, call.ciphertext, call.tag)

C5_AuthenticateBeforeRelease ==
    (call.op \in {"decrypt_rsa", "decrypt_aes"}) =>
        /\ (call.status = "returned" \/ call.plaintext # <<>>)
             => ("gcm_finalize" \in Ops(call) /\ TagVerifies)
        /\ (Ended /\ "aes_gcm_init" \in Ops(call) /\ ~TagVerifies)
             => (Failed /\ call.plaintext = <<>>)

\* decrypt_aes was given an untouched text and another key: update had
\* produced bytes when finalize raised InvalidTag
C5_Witness ==
    /\ call.op = "decrypt_aes"
    /\ call.status = "raised"
    /\ call.err = "InvalidTag"
    /\ call.updated # <<>>
    /\ wire.mod = "none"
    /\ call.aes_key # sealed[wire.src].aes_key

(***************************************************************************)
(* C6  Seal layout and length: the bytes encrypt_rsa assembles are the     *)
(* wrapped key (as long as the key's modulus, 256 bytes for 2048 bits),    *)
(* then the 12-byte IV, then the ciphertext, then the 16-byte tag; the     *)
(* ciphertext is as long as the UTF-8 encoding of the plaintext, so the    *)
(* envelope has 256 + 12 + len(utf8(p)) + 16 bytes (295 for "hello         *)
(* world").                                                                *)
(***************************************************************************)
\* bytes of the UTF-8 form of one code point / of a string
Utf8CharLen(c) == IF c < 128 THEN 1 ELSE IF c < 2048 THEN 2 ELSE IF c < 65536 THEN 3 ELSE 4

RECURSIVE Utf8Len(_)
Utf8Len(str) == IF str = <<>> THEN 0 ELSE Utf8CharLen(Head(str)) + Utf8Len(Tail(str))

C6_SealLayout ==
    \A i \in RsaSeals :
        LET e == sealed[i]
            n == ModBytes(keyring[e.key])
            m == Len(e.data)
        IN  /\ Len(e.encrypted_aes_key) = n
            /\ Len(e.iv) = 12
            /\ Len(e.tag) = 16
            /\ Len(e.ciphertext) = Utf8Len(e.plaintext)
            /\ m = n + 12 + Utf8Len(e.plaintext) + 16
            /\ SubSeq(e.data, 1, n) = e.encrypted_aes_key
            /\ SubSeq(e.data, n + 1, n + 12) = e.iv
            /\ SubSeq(e.data, n + 13, m - 16) = e.ciphertext
            /\ SubSeq(e.data, m - 15, m) = e.tag
            /\ (keyring[e.key].bits = 2048) =>
                  (n = 256 /\ m = 256 + 12 + Utf8Len(e.plaintext) + 16)
            /\ (keyring[e.key].bits = 2048 /\ e.plaintext = HelloWorld) => m = 295

\* "hello world" and a two-byte character have both been sealed under
\* 2048-bit keys
C6_Witness ==
    /\ \E i \in RsaSeals :
         /\ sealed[i].plaintext = HelloWorld
         /\ keyring[sealed[i].key].bits = 2048
         /\ Len(sealed[i].data) = 295
    /\ \E i \in RsaSeals :
         /\ sealed[i].plaintext = <<233>>
         /\ Len(sealed[i].ciphertext) = 2

(***************************************************************************)
(* C7  Open slicing matches seal: for every recipient key, a decrypt_rsa   *)
(* call on the text encrypt_rsa returned for that key takes a wrapped-key  *)
(* prefix as long as the key's modulus, then 12 bytes of IV, the last 16   *)
(* bytes as tag and the bytes between as ciphertext: the four fields       *)
(* encrypt_rsa wrote, covering the whole envelope.                         *)
(***************************************************************************)
C7_OpenSlicingMatchesSeal ==
    (call.op = "decrypt_rsa" /\ Ended) =>
        \A i \in RsaSeals :
            (sealed[i].text = call.arg_text /\ sealed[i].key = call.arg_key)
            => /\ Len(call.encrypted_aes_key) = ModBytes(keyring[call.arg_key])
               /\ call.encrypted_aes_key = sealed[i].encrypted_aes_key
               /\ call.iv = sealed[i].iv
               /\ call.ciphertext = sealed[i].ciphertext
               /\ call.tag = sealed[i].tag
               /\ call.encrypted_aes_key \o call.iv \o call.ciphertext \o call.tag
                    = call.encrypted_data

(***************************************************************************)
(* C8  Key independence: two encrypt_rsa calls with the same plaintext and *)
(* the same public key return different texts, made with different         *)
(* symmetric keys and IVs, and decrypt_rsa with the matching private key   *)
(* opens each of the two to the plaintext.                                 *)
(***************************************************************************)
C8_KeyIndependence ==
    \A i, j \in RsaSeals :
        (/\ i < j
         /\ sealed[i].plaintext = sealed[j].plaintext
         /\ sealed[i].key = sealed[j].key)
        => /\ sealed[i].text # sealed[j].text
           /\ sealed[i].aes_key # sealed[j].aes_key
           /\ sealed[i].iv # sealed[j].iv
           /\ OpensTo(sealed[i].text, sealed[i].key, sealed[i].plaintext)
           /\ OpensTo(sealed[j].text, sealed[j].key, sealed[j].plaintext)

(***************************************************************************)
(* C9  One-time key and nonce: every encrypt_rsa call draws its symmetric  *)
(* key and its IV from the random source during that call; no symmetric    *)
(* key, IV or (key, IV) pair of one envelope is that of another envelope   *)
(* or of another call in progress; between calls no key or IV is held in   *)
(* any local.                                                              *)
(***************************************************************************)
DrawnInCall(bytes, n, e) ==
    \E d \in e.first_draw..e.last_draw : bytes = urandom(n, d)

C9_OneTimeKeyAndNonce ==
    /\ \A i \in RsaSeals :
         /\ DrawnInCall(sealed[i].aes_key, AES_KEY_LEN, sealed[i])
         /\ DrawnInCall(sealed[i].iv, IV_LEN, sealed[i])
         /\ call.aes_key # sealed[i].aes_key \/ call.op # "encrypt_rsa"
         /\ call.iv # sealed[i].iv \/ call.op # "encrypt_rsa"
    /\ \A i, j \in RsaSeals :
         i # j => /\ sealed[i].aes_key # sealed[j].aes_key
                  /\ sealed[i].iv # sealed[j].iv
                  /\ <<sealed[i].aes_key, sealed[i].iv>>
                       # <<sealed[j].aes_key, sealed[j].iv>>
    /\ call.op = "idle" => call = NoCall
    /\ (call.op = "encrypt_rsa" /\ call.pc = "generate_aes_key")
         => (call.aes_key = <<>> /\ call.iv = <<>>)

\* two envelopes for the same plaintext and key have been sealed, one
\* call after the other
C9_Witness ==
    /\ Cardinality(RsaSeals) >= 2
    /\ \E i, j \in RsaSeals :
         /\ i # j
         /\ sealed[i].key = sealed[j].key
         /\ sealed[i].plaintext = sealed[j].plaintext

(***************************************************************************)
(* C10  Open order and fail-closed: decrypt_rsa performs its library       *)
(* operations in the order decode, RSA unwrap, AES-GCM (init, update,      *)
(* finalize), UTF-8 decode, one per step; when the unwrap fails no         *)
(* symmetric operation is attempted; a call that raised returned no value  *)
(* and runs no further step.                                               *)
(***************************************************************************)
UnwrapFails(c) ==
    /\ "rsa_decrypt" \in Ops(c)
    /\ ~RsaOaepDecrypt(keyring[c.arg_key], c.encrypted_aes_key).ok

C10_Step ==
    /\ (call'.op = "decrypt_rsa") =>
          /\ IsPrefix(call'.log, OpenOrder)
          /\ UnwrapFails(call') =>
                /\ call'.status = "raised"
                /\ call'.value = <<>>
                /\ Ops(call') \cap SymmetricOps = {}
          /\ (call'.status = "raised") => (call'.value = <<>> /\ call'.pc = "end")
    /\ (call.op = "decrypt_rsa" /\ call.status = "raised") => call' = NoCall
    /\ (call.op = "decrypt_rsa" /\ call.status = "running")
          => (call'.op = "decrypt_rsa" /\ Len(call'.log) = Len(call.log) + 1)

C10_OpenOrderFailClosed == [][C10_Step]_vars

\* the wrapped key was changed in transit and the call ended at the unwrap
C10_Witness ==
    /\ call.op = "decrypt_rsa"
    /\ call.status = "raised"
    /\ call.log = <<"b64decode", "rsa_decrypt">>
    /\ wire.mod = "flip"
    /\ Len(call.encrypted_data) >= MinEnvelopeLen

(***************************************************************************)
(* C11  Error propagation without retry: when the RSA unwrap or the tag    *)
(* check of a decrypt_rsa call fails, the call ends at that operation and  *)
(* raises the error the library operation raised (ValueError from          *)
(* private_key.decrypt, InvalidTag from decryptor.finalize); no library    *)
(* operation is performed twice in one call.                               *)
(***************************************************************************)
\* the exception a failing library operation raises
LibraryError(o) ==
    CASE o = "rsa_decrypt" -> "ValueError"
      [] o = "gcm_finalize" -> "InvalidTag"
      [] o = "aes_gcm_init" -> "ValueError"
      [] o = "utf8_decode" -> "UnicodeDecodeError"
      [] OTHER -> "binascii.Error"

NoRepeat(log) == \A i, j \in 1..Len(log) : i # j => log[i] # log[j]

LastOp(c) == c.log[Len(c.log)]

RaisedAt(c, o) ==
    /\ c.status = "raised"
    /\ c.value = <<>>
    /\ LastOp(c) = o
    /\ c.err = LibraryError(o)

C11_ErrorPropagation ==
    (call.op = "decrypt_rsa") =>
        /\ NoRepeat(call.log)
        /\ UnwrapFails(call) => RaisedAt(call, "rsa_decrypt")
        /\ ("gcm_finalize" \in Ops(call) /\ ~TagVerifies)
              => RaisedAt(call, "gcm_finalize")

\* a cut envelope whose wrapped key arrived whole: the unwrap succeeded and
\* the tag check raised InvalidTag
C11_Witness ==
    /\ call.op = "decrypt_rsa"
    /\ wire.mod = "cut"
    /\ "rsa_decrypt" \in Ops(call)
    /\ ~UnwrapFails(call)
    /\ RaisedAt(call, "gcm_finalize")

(***************************************************************************)
(* C12  All-or-nothing: an encrypt_rsa or decrypt_rsa call that has ended  *)
(* either raised, and then no value left the call, or returned a complete  *)
(* result: the text of an envelope with all four fields at full length, or *)
(* the decoding of every decrypted byte of an input that was consumed      *)
(* whole.  A call that is still running has returned nothing.              *)
(***************************************************************************)
CompleteEnvelope(c) ==
    /\ Len(c.encrypted_aes_key) = ModBytes(keyring[c.arg_key])
    /\ Len(c.iv) = IV_LEN
    /\ Len(c.ciphertext) = Len(Utf8Encode(c.arg_text))
    /\ Len(c.tag) = TAG_LEN
    /\ c.encrypted_data = c.encrypted_aes_key \o c.iv \o c.ciphertext \o c.tag
    /\ c.value = b64encode(c.encrypted_data)

CompletePlaintext(c) ==
    /\ c.encrypted_data = c.encrypted_aes_key \o c.iv \o c.ciphertext \o c.tag
    /\ c.plaintext = GcmDecrypt(c.aes_key, c.iv, c.ciphertext)
    /\ Utf8Encode(c.value) = c.plaintext

C12_AllOrNothing ==
    (call.op \in {"encrypt_rsa", "decrypt_rsa"}) =>
        /\ (call.status = "running") => call.value = <<>>
        /\ (call.status = "raised") => call.value = <<>>
        /\ (call.status = "returned" /\ call.op = "encrypt_rsa")
              => CompleteEnvelope(call)
        /\ (call.status = "returned" /\ call.op = "decrypt_rsa")
              => CompletePlaintext(call)

\* a changed envelope: update() had produced bytes inside the call when it
\* raised, and none of them left it
C12_Witness ==
    /\ call.op = "decrypt_rsa"
    /\ wire.mod = "flip"
    /\ call.status = "raised"
    /\ call.updated # <<>>
    /\ call.value = <<>>

(***************************************************************************)
(* C15  Encoding round trip: the bytes base64.b64decode produces inside    *)
(* decrypt_rsa / decrypt_aes from the padded standard base64 text of an    *)
(* envelope byte string b (a sealed envelope, one with a changed byte, or  *)
(* a prefix of any length) are exactly b: they encode to the text that was *)
(* decoded, and the text encrypt_rsa returned decodes to the bytes         *)
(* encrypt_rsa assembled.                                                  *)
(***************************************************************************)
DecryptOps == {"decrypt_rsa", "decrypt_aes"}

\* the call has just performed its b64decode
JustDecoded == call.op \in DecryptOps /\ call.log = <<"b64decode">>

C15_EncodingRoundTrip ==
    (JustDecoded /\ wire.mod \in {"none", "flip", "cut"}) =>
        /\ call.status = "running"
        /\ b64encode(call.encrypted_data) = call.arg_text
        /\ (wire.mod = "none") => call.encrypted_data = sealed[wire.src].data
        /\ (wire.mod = "flip")
              => OneByteOff(call.encrypted_data, sealed[wire.src].data)
        /\ (wire.mod = "cut")
              => /\ IsPrefix(call.encrypted_data, sealed[wire.src].data)
                 /\ Len(call.encrypted_data) < Len(sealed[wire.src].data)

\* the text of a 295-byte envelope ("hello world", two pad characters) has
\* been decoded inside decrypt_rsa
C15_Witness ==
    /\ JustDecoded
    /\ call.op = "decrypt_rsa"
    /\ wire.mod = "none"
    /\ Len(call.encrypted_data) = 295
    /\ SubSeq(call.arg_text, Len(call.arg_text) - 1, Len(call.arg_text)) = <<61, 61>>

(***************************************************************************)
(* C16  Malformed text is rejected: when the text given to decrypt_rsa or  *)
(* decrypt_aes is not well-formed padded standard base64 (a character      *)
(* outside the alphabet, wrong padding), the decode fails with an encoding *)
(* error; the call never goes on to open a cleaned or truncated text.      *)
(***************************************************************************)
\* padded standard base64: whole quanta of alphabet characters, at most two
\* '=' and only at the very end
WellFormedB64(t) ==
    /\ Len(t) % 4 = 0
    /\ \A i \in 1..Len(t) :
          \/ IsB64Data(t[i])
          \/ /\ t[i] = 61
             /\ i >= Len(t) - 1
             /\ (i = Len(t) - 1) => t[Len(t)] = 61

C16_MalformedRejected ==
    (call.op \in DecryptOps /\ call.log # <<>> /\ ~WellFormedB64(call.arg_text))
        => DecodeFailed

(***************************************************************************)
(* C17  Symmetric decrypt input check: a decrypt_aes call whose decoded    *)
(* input is shorter than the 12-byte nonce plus the 16-byte tag ends with  *)
(* MalformedInputError, without the cipher having been set up or run on    *)
(* short or overlapping slices.                                            *)
(***************************************************************************)
C17_AesInputCheck ==
    (/\ call.op = "decrypt_aes"
     /\ Ended
     /\ ~DecodeFailed
     /\ Len(call.encrypted_data) < IV_LEN + TAG_LEN)
    => (/\ call.status = "raised"
        /\ call.err = "MalformedInputError"
        /\ Ops(call) \cap SymmetricOps = {})

(***************************************************************************)
(* C18  RSA-only import: load_private_key_from_pem and                     *)
(* load_public_key_from_pem hand the caller RSA keys only; a load that     *)
(* fails raises KeyFormatError (text that is no well-formed key) or        *)
(* KeyAlgorithmMismatchError (a key of another algorithm).                 *)
(***************************************************************************)
Loaders == {"load_private_key_from_pem", "load_public_key_from_pem"}

C18_RsaOnlyImport ==
    /\ \A k \in 1..Len(keyring) : keyring[k].alg = "rsa"
    /\ (call.op \in Loaders /\ call.status = "raised")
          => call.err \in {"KeyFormatError", "KeyAlgorithmMismatchError"}

(***************************************************************************)
(* C13  Stateless, repeatable open: a decrypt_rsa call changes nothing but *)
(* its own locals (not the envelope, not the key, not the random source);  *)
(* nothing of a call is left when it is over; the outcome of a call is the *)
(* outcome decrypt_rsa has on the same text and key run from scratch; and  *)
(* all opens of one envelope with one key, whatever calls were made in     *)
(* between, have the same outcome.                                         *)
(***************************************************************************)
Outcome(c) == [status |-> c.status, value |-> c.value, err |-> c.err]

FromScratch(c) ==
    Outcome(RunDecryptRsa(NewCall("decrypt_rsa", "b64decode", c.arg_text,
                                  c.arg_key, 0),
                          keyring[c.arg_key]))

C13_Step ==
    /\ (call.op = "decrypt_rsa" /\ call'.op = "decrypt_rsa")
          => /\ UNCHANGED <<keyring, aeskeys, rng, sealed, wire, opened, peer>>
             /\ call'.arg_text = call.arg_text
             /\ call'.arg_key = call.arg_key
    /\ (call'.op = "idle") => call' = NoCall
    /\ (call'.op = "decrypt_rsa" /\ call'.status # "running")
          => Outcome(call') = FromScratch(call)
    /\ \A i, j \in 1..Len(opened') :
          (opened'[i].src = opened'[j].src /\ opened'[i].key = opened'[j].key)
          => Outcome(opened'[i]) = Outcome(opened'[j])

C13_StatelessRepeatableOpen == [][C13_Step]_vars

\* one envelope was opened, another text was sealed, and the first envelope
\* was opened again with the same key: the same plaintext both times
C13_Witness ==
    \E i, j \in 1..Len(opened) :
        /\ i < j
        /\ opened[i].src = opened[j].src
        /\ opened[i].key = opened[j].key
        /\ opened[i].at < opened[j].at
        /\ opened[i].status = "returned"
        /\ opened[j].status = "returned"
        /\ opened[i].value = sealed[opened[i].src].plaintext
        /\ opened[i].value # <<>>

(***************************************************************************)
(* C14  Concurrent independence: when several seal and open calls run in   *)
(* parallel, in any interleaving of their statements, a step of one call   *)
(* leaves the other call as it was; a decrypt_rsa call ends with the       *)
(* outcome it has when run alone on the same text and key; an encrypt_rsa  *)
(* call returns an envelope that opens to its own plaintext; and the calls *)
(* share nothing but the random source, which hands each draw to one of    *)
(* them.                                                                   *)
(***************************************************************************)
\* what call c, which ends in this step as d, owes its caller
EndsAlone(c, d) ==
    (c.status = "running" /\ d.status # "running") =>
        /\ d.op = "decrypt_rsa" => Outcome(d) = FromScratch(c)
        /\ d.op = "encrypt_rsa" =>
              /\ d.status = "returned"
              /\ OpensTo(d.value, c.arg_key, c.arg_text)

C14_Step ==
    /\ call' # call => peer' = peer
    /\ peer' # peer => call' = call
    /\ (call' # call /\ call.op # "idle" /\ call'.op # "idle")
          => UNCHANGED <<keyring, sealed, wire>>
    /\ (peer' # peer /\ peer.op # "idle" /\ peer'.op # "idle")
          => UNCHANGED <<keyring, sealed, wire>>
    /\ EndsAlone(call, call')
    /\ EndsAlone(peer, peer')
    /\ (call'.op = "encrypt_rsa" /\ peer'.op = "encrypt_rsa")
          => /\ (call'.aes_key # <<>>) => call'.aes_key # peer'.aes_key
             /\ (call'.iv # <<>>) => call'.iv # peer'.iv

C14_ConcurrentIndependence == [][C14_Step]_vars

\* the first thread's encrypt_rsa returned although the second thread drew
\* from the random source between its two draws, sealed, and opened its own
\* envelope meanwhile
C14_Witness ==
    /\ call.op = "encrypt_rsa"
    /\ call.status = "returned"
    /\ call.aes_key = generate_aes_key(call.rng0 + 1)
    /\ call.iv # urandom(IV_LEN, call.rng0 + 2)
    /\ peer.op = "decrypt_rsa"
    /\ peer.status = "returned"
    /\ peer.value # <<>>
    /\ peer.arg_text # call.value

(***************************************************************************)
(* C19  Relay, authentication first: a POST /agent/ask or a POST           *)
(* /auth/get-public-key without a valid Authorization header (none at all, *)
(* or one verify_github_token turns away) is answered 401; the token is    *)
(* verified before the blob is validated, so a too-short blob without a    *)
(* valid header gives 401 and a 400 is given only to an authenticated      *)
(* request; and the rejected request leaves MESSAGE_QUEUE and USER_DATA    *)
(* unchanged.                                                              *)
(***************************************************************************)
AuthEndpoints == {"POST /agent/ask", "POST /auth/get-public-key"}

\* the header names a user to the relay
Authenticated(authorization) == ~verify_github_token(authorization).raised

C19_Step ==
    /\ (request'.endpoint \in AuthEndpoints /\ ~request'.authorization.some)
          => response'.status_code = 401
    /\ (request'.endpoint \in AuthEndpoints
          /\ ~Authenticated(request'.authorization))
          => /\ response'.status_code = 401
             /\ response'.message_id = None
             /\ response'.app_public_key = None
             /\ UNCHANGED <<MESSAGE_QUEUE, USER_DATA>>
    /\ response'.status_code = 400 => Authenticated(request'.authorization)

C19_AuthenticationFirst == [][C19_Step]_vars

\* with a message stored, an ask with the blob "short" and no Authorization
\* header has been answered 401
C19_Witness ==
    /\ request.endpoint = "POST /agent/ask"
    /\ ~request.authorization.some
    /\ request.encrypted_blob = <<115, 104, 111, 114, 116>>
    /\ response.status_code = 401
    /\ MESSAGE_QUEUE # <<>>
    /\ DOMAIN USER_DATA # {}

(***************************************************************************)
(* C20  Relay, blob validation: an authenticated POST /agent/ask whose     *)
(* encrypted_blob is empty or shorter than 100 characters is answered 400, *)
(* no message is appended to MESSAGE_QUEUE, no message id is issued and    *)
(* USER_DATA is unchanged.                                                 *)
(***************************************************************************)
C20_Step ==
    (/\ request'.endpoint = "POST /agent/ask"
     /\ Authenticated(request'.authorization)
     /\ Len(request'.encrypted_blob) < 100)
    => /\ response'.status_code = 400
       /\ response'.message_id = None
       /\ response'.status # "accepted"
       /\ UNCHANGED <<MESSAGE_QUEUE, USER_DATA>>

C20_BlobValidation == [][C20_Step]_vars

\* with a message stored, an authenticated ask with a blob of 99 characters
\* has been answered 400
C20_Witness ==
    /\ request.endpoint = "POST /agent/ask"
    /\ Authenticated(request.authorization)
    /\ Len(request.encrypted_blob) = 99
    /\ response.status_code = 400
    /\ MESSAGE_QUEUE # <<>>

(***************************************************************************)
(* C21  Relay, accepted ask: every authenticated POST /agent/ask with a    *)
(* blob of at least 100 characters returns status "accepted" and a         *)
(* message_id, appends exactly one message to MESSAGE_QUEUE with that id,  *)
(* the caller's user_id, status PENDING and an encrypted_blob equal        *)
(* character for character to the submitted text, and adds the id to that  *)
(* user's message list; all earlier queue entries are unchanged.           *)
(***************************************************************************)
\* the user the header names
Caller(authorization) == verify_github_token(authorization).user_id

\* the message ids listed under user u in data, none for a user not in it
MessagesOf(data, u) == IF u \in DOMAIN data THEN data[u].messages ELSE <<>>

C21_Step ==
    (/\ request'.endpoint = "POST /agent/ask"
     /\ Authenticated(request'.authorization)
     /\ Len(request'.encrypted_blob) >= 100)
    => /\ response'.status_code = 200
       /\ response'.status = "accepted"
       /\ response'.message_id.some
       /\ Len(MESSAGE_QUEUE') = Len(MESSAGE_QUEUE) + 1
       /\ SubSeq(MESSAGE_QUEUE', 1, Len(MESSAGE_QUEUE)) = MESSAGE_QUEUE
       /\ \E m \in {MESSAGE_QUEUE'[Len(MESSAGE_QUEUE')]} :
            /\ m.message_id = response'.message_id.val
            /\ m.user_id = Caller(request'.authorization)
            /\ m.status = "pending"
            /\ m.encrypted_blob = request'.encrypted_blob
       /\ MessagesOf(USER_DATA', Caller(request'.authorization))
            = Append(MessagesOf(USER_DATA, Caller(request'.authorization)),
                     response'.message_id.val)

C21_AcceptedAsk == [][C21_Step]_vars

\* a blob of 100 characters that ends in "==" has been accepted behind an
\* earlier message of the same user and is stored as submitted
C21_Witness ==
    /\ request.endpoint = "POST /agent/ask"
    /\ Len(request.encrypted_blob) = 100
    /\ request.encrypted_blob[100] = 61
    /\ response.status = "accepted"
    /\ Len(MESSAGE_QUEUE) = 2
    /\ MESSAGE_QUEUE[2].encrypted_blob = request.encrypted_blob
    /\ MESSAGE_QUEUE[2].message_id = response.message_id.val
    /\ MESSAGE_QUEUE[1].user_id = MESSAGE_QUEUE[2].user_id

(***************************************************************************)
(* C22  Relay, public key always available: in every reachable state of    *)
(* the relay (after any sequence of get-public-key, ask and debug-clear    *)
(* requests, including an ask by a user who never requested a key), an     *)
(* authenticated POST /auth/get-public-key returns 200 with an             *)
(* app_public_key string for that user.                                    *)
(***************************************************************************)
C22_Step ==
    (/\ request'.endpoint = "POST /auth/get-public-key"
     /\ Authenticated(request'.authorization))
    => /\ response'.status_code = 200
       /\ response'.app_public_key.some
       /\ response'.app_public_key.val # <<>>

C22_PublicKeyAlwaysAvailable == [][C22_Step]_vars

(***************************************************************************)
(* C23  Relay, per-user listing: GET /debug/messages?user_id=u returns 200 *)
(* for every user u that has made an authenticated get-public-key or       *)
(* accepted ask since the last clear, with message_count equal to the      *)
(* number of u's accepted asks since then and the ids in the order they    *)
(* were accepted; for a user never seen it returns 404.                    *)
(***************************************************************************)
C23_Step ==
    (request'.endpoint = "GET /debug/messages" /\ request'.user_id.some)
    => IF request'.user_id.val \in DOMAIN seen
       THEN /\ response'.status_code = 200
            /\ response'.message_count =
                  Some(Len(seen[request'.user_id.val].asks))
            /\ response'.messages = Some(seen[request'.user_id.val].asks)
       ELSE response'.status_code = 404

C23_PerUserListing == [][C23_Step]_vars

(***************************************************************************)
(* C24  Relay, permanent key: between two debug clears, all successful     *)
(* get-public-key responses for the same user return the same key; no ask  *)
(* or other user's request changes a public key once it has been created   *)
(* for that user.                                                          *)
(***************************************************************************)
\* the users that have a public key in data
KeyHolders(data) == {u \in DOMAIN data : data[u].public_key.some}

C24_Step ==
    /\ (/\ request'.endpoint = "POST /auth/get-public-key"
        /\ response'.status_code = 200
        /\ SeenOf(Caller(request'.authorization)).key.some)
       => response'.app_public_key = SeenOf(Caller(request'.authorization)).key
    /\ request'.endpoint # "POST /debug/clear"
       => \A u \in KeyHolders(USER_DATA) :
            /\ u \in DOMAIN USER_DATA'
            /\ USER_DATA'[u].public_key = USER_DATA[u].public_key

C24_PermanentKey == [][C24_Step]_vars

\* user "u" got a key, had an ask accepted, and got the same key again,
\* with another user known to the relay
C24_Witness ==
    /\ request.endpoint = "POST /auth/get-public-key"
    /\ response.status_code = 200
    /\ Caller(request.authorization) = <<117>>
    /\ <<117>> \in DOMAIN seen
    /\ seen[<<117>>].key = response.app_public_key
    /\ Len(seen[<<117>>].asks) = 1
    /\ <<118>> \in DOMAIN USER_DATA

(***************************************************************************)
(* C25  Demo token parsing: verify_github_token returns a user_id exactly  *)
(* when the header is "Bearer " followed by a token of the form            *)
(* github|<user_id>|<token> with exactly three |-separated parts, and the  *)
(* returned user_id is the second part; every other header (missing, no    *)
(* Bearer prefix, other prefix, two parts, four or more parts) is rejected *)
(* with 401; the development branch of main_production accepts and        *)
(* rejects the same headers with the same user_id.                         *)
(***************************************************************************)
\* the positions of "|" in text
Bars(text) == {i \in 1..Len(text) : text[i] = 124}

\* what follows "Bearer " in a header that starts with it
TokenOf(header) == SubSeq(header, Len(Bearer) + 1, Len(header))

\* the header is "Bearer " followed by github|<user_id>|<token>
DemoForm(authorization) ==
    /\ authorization.some
    /\ StartsWith(authorization.val, Bearer)
    /\ StartsWith(TokenOf(authorization.val), GithubBar)
    /\ Cardinality(Bars(TokenOf(authorization.val))) = 2

\* the text between the two bars of a token of that form
SecondPart(token) ==
    SubSeq(token, Len(GithubBar) + 1,
           (CHOOSE i \in Bars(token) : i > Len(GithubBar)) - 1)

C25_DemoTokenParsing ==
    request.endpoint \in AuthEndpoints =>
        \E r \in {verify_github_token(request.authorization)} :
            /\ DemoForm(request.authorization)
                 => /\ ~r.raised
                    /\ r.user_id = SecondPart(TokenOf(request.authorization.val))
            /\ ~DemoForm(request.authorization)
                 => /\ r.raised
                    /\ r.status_code = 401
                    /\ response.status_code = 401
            /\ production_verify_github_token(request.authorization,
                                              "development") = r

(***************************************************************************)
(* C27  Relay, unique ids in the queue: in every reachable state of the    *)
(* demo relay, after any sequence and any interleaving of ask,             *)
(* get-public-key and debug-clear requests from any users, no two messages *)
(* in MESSAGE_QUEUE have the same message_id.                              *)
(***************************************************************************)
C27_UniqueIdsInQueue ==
    \A i, j \in 1..Len(MESSAGE_QUEUE) :
        i # j => MESSAGE_QUEUE[i].message_id # MESSAGE_QUEUE[j].message_id

\* two messages of one user are queued
C27_Witness ==
    /\ Len(MESSAGE_QUEUE) = 2
    /\ MESSAGE_QUEUE[1].user_id = MESSAGE_QUEUE[2].user_id
    /\ MESSAGE_QUEUE[1].user_id = <<117>>

(***************************************************************************)
(* C28  Relay, queue and user index agree: in every reachable state of the *)
(* demo relay, each message id in USER_DATA[u]["messages"] is the id of    *)
(* exactly one message in MESSAGE_QUEUE whose user_id is u, each queued    *)
(* message is listed under its user exactly once, and the sum of all       *)
(* users' message counts equals len(MESSAGE_QUEUE); debug clear empties    *)
(* both together.                                                          *)
(***************************************************************************)
RECURSIVE MessageCounts(_, _)
\* the sum of the message counts of the users in users
MessageCounts(data, users) ==
    IF users = {} THEN 0
    ELSE LET u == CHOOSE x \in users : TRUE
         IN  Len(data[u].messages) + MessageCounts(data, users \ {u})

\* the positions in the queue of the messages of user u with id message_id
QueuedAs(u, message_id) ==
    {i \in 1..Len(MESSAGE_QUEUE) :
        /\ MESSAGE_QUEUE[i].message_id = message_id
        /\ MESSAGE_QUEUE[i].user_id = u}

\* the positions in the list of user u that hold message_id
ListedAs(u, message_id) ==
    {k \in 1..Len(MessagesOf(USER_DATA, u)) :
        MessagesOf(USER_DATA, u)[k] = message_id}

C28_QueueAndIndexAgree ==
    /\ \A u \in DOMAIN USER_DATA :
         \A k \in 1..Len(USER_DATA[u].messages) :
            Cardinality(QueuedAs(u, USER_DATA[u].messages[k])) = 1
    /\ \A i \in 1..Len(MESSAGE_QUEUE) :
         Cardinality(ListedAs(MESSAGE_QUEUE[i].user_id,
                              MESSAGE_QUEUE[i].message_id)) = 1
    /\ MessageCounts(USER_DATA, DOMAIN USER_DATA) = Len(MESSAGE_QUEUE)
    /\ request.endpoint = "POST /debug/clear"
         => USER_DATA = <<>> /\ MESSAGE_QUEUE = <<>>

\* two users have one queued message each, and a third user has a key
C28_Witness ==
    /\ Len(MESSAGE_QUEUE) = 2
    /\ MESSAGE_QUEUE[1].user_id = <<118>>
    /\ MESSAGE_QUEUE[2].user_id = <<>>
    /\ Len(MessagesOf(USER_DATA, <<118>>)) = 1
    /\ <<117>> \in DOMAIN USER_DATA

(***************************************************************************)
(* C29  Production relay, unique ids: in main_production every accepted    *)
(* POST /agent/ask returns a message_id different from the message_id of   *)
(* every other accepted ask, also for two asks by the same user handled    *)
(* within the same millisecond, as the unique message_id column of the     *)
(* messages table requires.                                                *)
(***************************************************************************)
C29_ProductionUniqueIds ==
    \A i, j \in 1..Len(issued) :
        i # j => issued[i].message_id # issued[j].message_id

(***************************************************************************)
(* C26  Agent exchange order and key use: in the Phase 0 exchange the work *)
(* order is sealed under the app's public key and carries the agent's      *)
(* ephemeral public key; the reply is sealed only after the work order has *)
(* been opened, under the ephemeral public key read from the opened work   *)
(* order, so the reply opens with the agent's ephemeral private key and    *)
(* not with the app's private key, and the prompt and reply recovered at   *)
(* the end equal the ones sent.                                            *)
(***************************************************************************)
\* key object k is the public half of key pair p
PublicHalfOf(k, p) ==
    /\ keyring[k].origin = "loaded_public"
    /\ keyring[k].alg = "rsa"
    /\ keyring[k].id = keyring[p].id
    /\ keyring[k].bits = keyring[p].bits

\* the key the text of a work order names for the reply
KeyNamedIn(work_order_json) ==
    GetItem(GetItem(json_loads(work_order_json).val, Key.reply_instructions),
            Key.reply_encryption_key).str

\* decrypt_rsa(text, key object k) raises
FailsToOpen(text, k) ==
    RunDecryptRsa(NewCall("decrypt_rsa", "b64decode", text, k, 0),
                  keyring[k]).status = "raised"

\* the key object under which the reply is being sealed or was sealed
ReplyKeys ==
    (IF call.op = "encrypt_rsa" /\ Len(sealed) = 1 THEN {call.arg_key} ELSE {})
    \cup {sealed[i].key : i \in 2..Len(sealed)}

C26_ExchangeOrderAndKeys ==
    /\ Len(sealed) >= 1 =>
         /\ sealed[1].plaintext = main.work_order_json
         /\ PublicHalfOf(sealed[1].key, main.app_private_key)
         /\ KeyNamedIn(sealed[1].plaintext)
              = get_public_key_pem(keyring[main.temp_private_key])
    /\ \A k \in ReplyKeys :
         /\ main.decrypted_work_order = main.work_order_json
         /\ OpensTo(main.encrypted_work_order, main.app_private_key,
                    main.decrypted_work_order)
         /\ ParsePem(KeyNamedIn(main.decrypted_work_order)).id = keyring[k].id
         /\ PublicHalfOf(k, main.temp_private_key)
    /\ Len(sealed) >= 2 =>
         /\ sealed[2].plaintext = main.reply_text
         /\ OpensTo(sealed[2].text, main.temp_private_key, main.reply_text)
         /\ FailsToOpen(sealed[2].text, main.app_private_key)
    /\ main.pc = "done" =>
         /\ main.encrypted_reply = sealed[2].text
         /\ GetItem(main.decrypted_json, Key.prompt).str = main.prompt
         /\ main.decrypted_reply = main.reply_text
    /\ main.pc # "raised"

\* main() has run to its end with the prompt that json.dumps escapes and
\* the reply "é"
C26_Witness ==
    /\ main.pc = "done"
    /\ main.prompt = <<34, 92, 10, 233, 128512>>
    /\ main.reply_text = <<233>>
    /\ Len(sealed) = 2
    /\ main.app_private_key # main.temp_private_key

====
